---- MODULE Spec2Model ----
(***************************************************************************)
(* Verification model of the query-understanding and ranking core of the   *)
(* veterinary product-search assistant:                                    *)
(*   - rag_domain/optimizer.py   QueryOptimizer (filter derivation)        *)
(*   - chat_domain/manager.py    ConversationManager.handle_message        *)
(*   - rag_domain/search.py      VectorSearchService (scoring / ranking)   *)
(*   - rag_domain/ner_classifier.py  VeterinaryNERClassifier (extraction)  *)
(*                                                                         *)
(* The specifications share the variables of the module:                   *)
(*   SpecOptimize  one handle_message call: classify, optimize (oracle     *)
(*                 call, fallback or validation), retrieval                *)
(*   SpecSearch    one search_with_context call over a list of raw hits    *)
(*   SpecNER       one _find_all_entities call over a query and a lexicon  *)
(*   SpecWeightFit one _score_weight_fit call over two weight ranges       *)
(*   SpecFilterEntities  one _filter_noisy_entities call over a span list  *)
(*   SpecConcurrent  two classify calls interleaved on one classifier      *)
(*   SpecWeightExtract  one WeightExtractor.extract call over a title      *)
(* The variables a specification does not use keep their idle value.       *)
(*                                                                         *)
(* Numbers with a decimal part in the code (scores, thresholds) are kept   *)
(* in hundredths: 3.0 is 300.                                              *)
(***************************************************************************)
EXTENDS Integers, Sequences, FiniteSets, TLC

VARIABLES
    \* ---- handle_message / optimize -----------------------------------
    hm_pc,            \* position in handle_message
    user_text,        \* the query text of the call
    classification,   \* ClassificationResult of self.ner.classify
    llm_output,       \* what LLMService.generate gave _call_llm
    llm_attempts,     \* calls of self.llm.invoke made by LLMService.generate
    llm_waits,        \* calls of time.sleep(5) made by LLMService.generate
    llm_response,     \* what _call_llm returned to optimize (None or a draft)
    optimized_data,   \* what optimize returned to handle_message
    search_arg,       \* the optimized_data handed to search_with_context
    hm_trace,         \* the stages the call went through, in order
    final_candidates, \* what search_with_context returned to handle_message
    attachments,      \* the attachments of the returned answer
    \* ---- search_with_context -----------------------------------------
    s_pc,             \* position in search_with_context
    filters,          \* optimized_data['search_filters']
    query_text,       \* optimized_data['search_input']
    top_k,            \* the requested top_k
    raw_results,      \* rows returned by _search_with_soft_filters
    scored,           \* output of _apply_gradual_scoring_conditional
    filtered,         \* output of _apply_adaptive_threshold, then of diversification
    results,          \* the returned list
    \* ---- _find_all_entities ------------------------------------------
    n_pc,             \* position in _find_all_entities
    query_clean,      \* the normalized, cleaned query (a sequence of characters)
    lexicon,          \* the vocabularies built at startup, by entity type
    todo,             \* values of the current vocabulary not yet visited
    matches,          \* the list of spans found so far
    final_matches,    \* the returned list
    \* ---- _score_weight_fit -------------------------------------------
    wf_pc,            \* position of the _score_weight_fit call
    wf_product,       \* product_weight_range: (product_min, product_max)
    wf_target,        \* (target_min, target_max)
    wf_score,         \* the returned sub-score
    \* ---- _filter_noisy_entities --------------------------------------
    fe_pc,            \* position of the _filter_noisy_entities call
    fe_entities,      \* entities: classification.all_entities
    fe_query,         \* query (a sequence of characters)
    fe_filtered,      \* the returned list
    \* ---- concurrent classify calls on one classifier -----------------
    c_lexicon,        \* the shared vocabularies, each in its iteration order
    c_pc,             \* position of each call in _find_all_entities
    c_query,          \* query_clean of each call
    c_todo,           \* products each call has not visited yet
    c_matches,        \* the local list matches of each call
    c_result,         \* what each call returned
    \* ---- WeightExtractor.extract -------------------------------------
    we_pc,            \* position of the extract call
    we_title,         \* title, as a sequence of tokens
    we_result         \* the WeightRange returned, or NoWeight (None)

hm_vars == <<hm_pc, user_text, classification, llm_output, llm_attempts, llm_waits,
             llm_response, optimized_data, search_arg, hm_trace,
             final_candidates, attachments>>
s_vars == <<s_pc, filters, query_text, top_k, raw_results, scored, filtered, results>>
n_vars == <<n_pc, query_clean, lexicon, todo, matches, final_matches>>
wf_vars == <<wf_pc, wf_product, wf_target, wf_score>>
\* the variables of the specifications of single functions
fe_vars == <<fe_pc, fe_entities, fe_query, fe_filtered>>
c_vars == <<c_lexicon, c_pc, c_query, c_todo, c_matches, c_result>>
we_vars == <<we_pc, we_title, we_result>>
fn_vars == <<wf_vars, fe_vars, c_vars, we_vars>>
vars == <<hm_vars, s_vars, n_vars, fn_vars>>

(***************************************************************************)
(* Bounds of the model.                                                    *)
(***************************************************************************)
MaxHits == 4          \* raw hits returned by the retrieval call
MaxTopK == 3          \* requested top_k ranges over 1..MaxTopK
MaxQueryWords == 2    \* words of the query given to the extractor
MaxVocab == 2         \* values per vocabulary of the lexicon

(***************************************************************************)
(* Python / JSON values.  A value is a record tagged by its type; a dict   *)
(* is a function from its keys to values; None is JNull.                   *)
(***************************************************************************)
JNull == [t |-> "null"]
JBool(b) == [t |-> "bool", b |-> b]
JNum(n) == [t |-> "num", n |-> n]
JStr(s) == [t |-> "str", s |-> s]
JList(l) == [t |-> "list", l |-> l]
JObj(d) == [t |-> "obj", d |-> d]
EmptyDict == [k \in {} |-> JNull]

\* Python truthiness (bool(x)).
Truthy(v) ==
    CASE v.t = "null" -> FALSE
      [] v.t = "bool" -> v.b
      [] v.t = "num"  -> v.n # 0
      [] v.t = "str"  -> v.s # ""
      [] v.t = "list" -> Len(v.l) > 0
      [] v.t = "obj"  -> DOMAIN v.d # {}

\* dict.get(k): None when the key is absent.
Get(d, k) == IF k \in DOMAIN d THEN d[k] ELSE JNull
\* dict.get(k, default)
GetOr(d, k, default) == IF k \in DOMAIN d THEN d[k] ELSE default
\* d[k] = v
Put(d, k, v) == [x \in DOMAIN d \cup {k} |-> IF x = k THEN v ELSE d[x]]

(***************************************************************************)
(* Strings of the filter-derivation layer.  Texts are atomic; the string   *)
(* operations the code applies to them are tabulated for the texts the     *)
(* model draws (drafts of the oracle and user queries).                    *)
(***************************************************************************)
\* str.lower()
Lower(s) ==
    CASE s = "PERRO" -> "perro"
      [] s = "GATO" -> "gato"
      [] s = "Gotas" -> "gotas"
      [] s = "N/A" -> "n/a"
      [] s = "HOLLIDAY" -> "holliday"
      [] s = "HOLIDAY" -> "holiday"
      [] s = "BAYER" -> "bayer"
      [] s = "HOLLIDAY SCOTT" -> "holliday scott"
      [] s = "Power Gold" -> "power gold"
      [] s = "Power Gold 4-10kg" -> "power gold 4-10kg"
      [] s = "Power Gold promo" -> "power gold promo"
      [] s = "POWER GOLD" -> "power gold"
      [] s = "Bravecto" -> "bravecto"
      [] s = "Marca" -> "marca"
      [] s = "Nexgard" -> "nexgard"
      [] s = "Unknown" -> "unknown"
      [] s = "XY" -> "xy"
      [] s = "LABORATORIO HOLLIDAY" -> "laboratorio holliday"
      [] s = "LABORATORIO XY" -> "laboratorio xy"
      [] s = "Laboratorio Unknown" -> "laboratorio unknown"
      [] s = "Gotas para gato" -> "gotas para gato"
      [] OTHER -> s

\* str.strip()
Strip(s) ==
    CASE s = " bayer " -> "bayer"
      [] s = " x " -> "x"
      [] OTHER -> s

\* brand.upper().startswith('LABORATORIO ')
StartsWithLaboratorio(s) ==
    s \in {"LABORATORIO HOLLIDAY", "LABORATORIO XY", "Laboratorio Unknown"}

\* brand[12:].strip() for a brand that starts with the label prefix
DropLaboratorio(s) ==
    CASE s = "LABORATORIO HOLLIDAY" -> "HOLLIDAY"
      [] s = "LABORATORIO XY" -> "XY"
      [] s = "Laboratorio Unknown" -> "Unknown"
      [] OTHER -> s

\* The filter words that occur in a (lower-cased) query text as substrings.
Substrings(text) ==
    CASE text = "pipeta para perros" -> {"pipeta", "perro", "perros", "para"}
      [] text = "gotas para gato" -> {"gotas", "gato", "para"}
      [] text = "power gold de 20kg" -> {"power", "gold", "power gold"}
      [] text = "holliday scott" -> {"holliday", "scott"}
      [] text = "hola" -> {}
      [] OTHER -> {}

\* sub in text
InText(sub, text) == sub = "" \/ sub = text \/ sub \in Substrings(text)

\* str(x) of a draft value
StrOf(v) == IF v.t = "str" THEN v.s ELSE "<" \o v.t \o ">"

\* optimizer.py PRESENTATION_KEYWORDS
PRESENTATION_KEYWORDS ==
    {"gotas", "pipeta", "pipetas", "comprimidos", "tabletas", "inyectable",
     "shampoo", "spray", "collar", "difusor", "crema", "gel", "pomada",
     "solucion", "suspension"}

\* _post_process_response: INVALID_BRANDS
INVALID_BRANDS ==
    {"no detected", "not detected", "none", "null", "n/a", "no brand",
     "unknown", "not specified", "not found", "no laboratorio",
     "sin laboratorio", "no lab"}

\* _post_process_response: valid_species
VALID_SPECIES ==
    {"perro", "gato", "canino", "felino", "bovino", "equino", "ave", "porcino"}

\* _post_process_response: HALLUCINATION_PATTERNS
HALLUCINATION_PATTERNS ==
    {"que no sea x", "menos x", "x", "y", "specific brand", "brand name",
     "excluded brand", "[brand]", "<brand>", "marca", "lab", "laboratorio"}

(***************************************************************************)
(* QueryOptimizer (rag_domain/optimizer.py)                                *)
(***************************************************************************)
\* FIX #1 of _post_process_response: brand
FixBrand(f) ==
    IF ~Truthy(Get(f, "brand")) THEN f
    ELSE LET brand == Strip(StrOf(f["brand"])) IN
         IF Lower(brand) \in INVALID_BRANDS \/ Len(brand) < 3
         THEN Put(f, "brand", JNull)
         ELSE IF StartsWithLaboratorio(brand)
              THEN Put(f, "brand", JStr(DropLaboratorio(brand)))
              ELSE f

\* FIX #2 with the species left in place when it is moved to presentation
FixSpecies_KeepsMoved(f, query_lower) ==
    IF ~Truthy(Get(f, "species")) THEN f
    ELSE LET given == f["species"]
             species == IF given.t = "list" THEN given.l[1] ELSE given
         IN  IF ~Truthy(species) THEN f
             ELSE LET species_lower == Lower(StrOf(species)) IN
                  IF species_lower \in PRESENTATION_KEYWORDS
                  THEN IF ~Truthy(Get(f, "presentation"))
                       THEN Put(f, "presentation", species) ELSE f
                  ELSE IF species_lower \in VALID_SPECIES
                       THEN IF /\ ~InText(species_lower, query_lower)
                               /\ ~InText("perro", query_lower)
                               /\ ~InText("gato", query_lower)
                            THEN Put(f, "species", JNull)
                            ELSE Put(f, "species", species)
                       ELSE Put(f, "species", JNull)

\* FIX #2 of _post_process_response: species
FixSpecies(f, query_lower) ==
    IF ~Truthy(Get(f, "species")) THEN f
    ELSE LET given == f["species"]
             species == IF given.t = "list" THEN given.l[1] ELSE given
         IN  IF ~Truthy(species) THEN f
             ELSE LET species_lower == Lower(StrOf(species)) IN
                  IF species_lower \in PRESENTATION_KEYWORDS
                  THEN Put(IF ~Truthy(Get(f, "presentation"))
                              THEN Put(f, "presentation", species) ELSE f,
                           "species", JNull)
                  ELSE IF species_lower \in VALID_SPECIES
                       THEN IF /\ ~InText(species_lower, query_lower)
                               /\ ~InText("perro", query_lower)
                               /\ ~InText("gato", query_lower)
                            THEN Put(f, "species", JNull)
                            ELSE Put(f, "species", species)
                       ELSE Put(f, "species", JNull)

\* FIX #3 of _post_process_response: presentation
FixPresentation(f, query_lower) ==
    IF ~Truthy(Get(f, "presentation")) THEN f
    ELSE LET pres == Lower(StrOf(f["presentation"])) IN
         IF ~InText(pres, query_lower) THEN Put(f, "presentation", JNull) ELSE f

\* FIX #4 of _post_process_response: drug
FixDrug(f) ==
    IF ~Truthy(Get(f, "drug")) THEN f
    ELSE LET drug == Lower(StrOf(f["drug"])) IN
         IF drug \in PRESENTATION_KEYWORDS
         THEN Put(IF ~Truthy(Get(f, "presentation"))
                     THEN Put(f, "presentation", JStr(drug)) ELSE f,
                  "drug", JNull)
         ELSE f

\* FIX #5 without the test of the length of an entry
FixExcludeBrands_AnyLength(f) ==
    LET exclude_brands == GetOr(f, "exclude_brands", JList(<<>>)) IN
    IF ~Truthy(exclude_brands) THEN f
    ELSE LET keep(b) == Strip(Lower(StrOf(b))) \notin HALLUCINATION_PATTERNS
         IN  Put(f, "exclude_brands", JList(SelectSeq(exclude_brands.l, keep)))

\* FIX #5 of _post_process_response: exclude_brands
FixExcludeBrands(f) ==
    LET exclude_brands == GetOr(f, "exclude_brands", JList(<<>>)) IN
    IF ~Truthy(exclude_brands) THEN f
    ELSE LET keep(b) == /\ Strip(Lower(StrOf(b))) \notin HALLUCINATION_PATTERNS
                        /\ Len(Strip(StrOf(b))) > 2
         IN  Put(f, "exclude_brands", JList(SelectSeq(exclude_brands.l, keep)))

\* _post_process_response(llm_response, query).  llm_response is a dict; the
\* result is [raised, value]: filters.get on a search_filters that is not a
\* dict raises AttributeError.
PostProcessResponse(resp, query) ==
    LET r1 == IF ~Truthy(Get(resp, "search_input"))
              THEN Put(resp, "search_input", JStr(query)) ELSE resp
        r2 == IF ~Truthy(Get(r1, "search_filters"))
              THEN Put(r1, "search_filters", JObj(EmptyDict)) ELSE r1
        f0 == r2["search_filters"]
        query_lower == Lower(query)
    IN  IF f0.t # "obj" THEN [raised |-> TRUE, value |-> JNull]
        ELSE LET f == FixExcludeBrands(FixDrug(FixPresentation(
                          FixSpecies(FixBrand(f0.d), query_lower), query_lower)))
             IN  [raised |-> FALSE,
                  value |-> JObj(Put(r2, "search_filters", JObj(f)))]

\* Mutant of _fallback_response: the intent is a constant, not the classified one.
FallbackResponse_ConstantIntent(query, intent) ==
    JObj([k \in {"search_input", "search_filters", "intent"} |->
            CASE k = "search_input" -> JStr(query)
              [] k = "search_filters" -> JObj(EmptyDict)
              [] k = "intent" -> JStr("SEARCH")])

\* _fallback_response(query, intent)
FallbackResponse(query, intent) ==
    JObj([k \in {"search_input", "search_filters", "intent", "debug_analysis"} |->
            CASE k = "search_input" -> JStr(query)
              [] k = "search_filters" -> JObj(EmptyDict)
              [] k = "intent" -> JStr(intent)
              [] k = "debug_analysis" -> JObj(
                    [d \in {"approved_entities", "excluded_brands",
                            "relevant_history_objects"} |-> JList(<<>>)])])

\* _parse_llm_response(output_text): the markdown fence, if any, is removed
\* and the rest is given to json.loads; None on JSONDecodeError.  A text is
\* [fence, json, value]: value is what json.loads gives when json is TRUE.
ParseLlmResponse(output_text) ==
    IF output_text.json THEN output_text.value ELSE JNull

\* _call_llm(query, entities, filters, history), from the outcome of
\* self.llm_client.generate: an exception, or the text returned.
CallLlm(query, outcome) ==
    IF outcome.kind = "raise" THEN JNull
    ELSE IF outcome.kind \in {"empty", "error"} THEN JNull
    ELSE LET parsed == ParseLlmResponse(outcome.text) IN
         IF ~Truthy(parsed) THEN JNull
         ELSE IF parsed.t # "obj" THEN JNull   \* parsed.get: AttributeError, caught
         ELSE LET p1 == IF ~Truthy(Get(parsed.d, "search_input"))
                        THEN Put(parsed.d, "search_input", JStr(query)) ELSE parsed.d
                  p2 == IF ~Truthy(Get(p1, "search_filters"))
                        THEN Put(p1, "search_filters", JObj(EmptyDict)) ELSE p1
              IN  JObj(p2)

\* Mutant of optimize: the draft is returned as _call_llm gave it.
Optimize_Unvalidated(query, cls, response) ==
    IF ~Truthy(response)
    THEN [raised |-> FALSE, value |-> FallbackResponse(query, cls.intent),
          stage |-> "fallback"]
    ELSE [raised |-> FALSE, value |-> response, stage |-> "validate"]

\* optimize(query, classification, search_history), given what _call_llm
\* returned: [raised, value, stage], stage naming the branch taken.
Optimize(query, cls, response) ==
    IF ~Truthy(response)
    THEN [raised |-> FALSE, value |-> FallbackResponse(query, cls.intent),
          stage |-> "fallback"]
    ELSE LET post == PostProcessResponse(response.d, query) IN
         [raised |-> post.raised, value |-> post.value, stage |-> "validate"]

(***************************************************************************)
(* Inputs of one handle_message call.                                      *)
(***************************************************************************)
Absent == [t |-> "absent"]
\* A dict from a record of optional entries: the Absent ones are no keys.
MkDict(r) == [k \in {x \in DOMAIN r : r[x] # Absent} |-> r[k]]

Queries == {"power gold de 20kg", "pipeta para perros", "gotas para gato", "hola"}
Intents == {"SEARCH", "RECOMMENDATION", "SMALLTALK"}

\* search_filters dicts the oracle may draft: combinations of the text
\* filters, and drafts of a brand, of exclusions and of a weight range
DraftFilters ==
    { MkDict([brand |-> b, species |-> s, presentation |-> p, drug |-> d,
              exclude_brands |-> e]) :
        b \in {Absent, JNull, JStr("no detected"), JStr("LABORATORIO HOLLIDAY")},
        s \in {Absent, JStr("gotas"), JStr("PERRO"), JList(<<JStr("GATO")>>)},
        p \in {Absent, JStr("pipeta")},
        d \in {Absent, JStr("gotas")},
        e \in {Absent, JList(<<JStr("x"), JStr("marca")>>),
               JList(<<JStr("Bravecto")>>)} }
    \cup
    { MkDict([brand |-> b, exclude_brands |-> e, weight_min |-> w[1],
              weight_max |-> w[2]]) :
        b \in {JStr("LABORATORIO XY"), JStr("Laboratorio Unknown"), JStr(" bayer "),
               JStr("Bravecto"), JStr("N/A")},
        e \in {Absent, JList(<<JStr("Bravecto")>>),
               JList(<<JStr("Nexgard"), JStr(" x "), JStr("ab"), JStr("Marca"),
                       JStr("Bravecto")>>)},
        w \in {<<Absent, Absent>>, <<JNum(10), JNum(20)>>, <<JNum(20), JNum(10)>>} }

\* JSON objects the oracle may answer with
Drafts ==
    { MkDict([search_input |-> si, search_filters |-> sf, intent |-> JStr("SEARCH")]) :
        si \in {Absent, JStr("power gold")},
        sf \in {Absent, JStr("none")} \cup {JObj(f) : f \in DraftFilters} }

\* JSON texts that are not a (non-empty) object
NonObjects ==
    {JNull, JBool(TRUE), JNum(0), JNum(7), JStr("abc"), JList(<<>>),
     JList(<<JNum(1)>>), JObj(EmptyDict)}

\* Outcomes of self.llm_client.generate(system_prompt, user_prompt)
OracleOutcomes ==
    {[kind |-> "raise"], [kind |-> "empty"], [kind |-> "error"],
     [kind |-> "text", text |-> [json |-> FALSE, value |-> JNull]]}
    \cup {[kind |-> "text", text |-> [json |-> TRUE, value |-> v]] : v \in NonObjects}
    \cup {[kind |-> "text", text |-> [json |-> TRUE, value |-> JObj(d)]] : d \in Drafts}

\* max_attempts of LLMService.generate
MAX_ATTEMPTS == 3

\* What self.llm.invoke does over the attempts of one generate call: it
\* fails (raises) a number of times, then returns a content, or it fails
\* every time.
InvokeRuns ==
    { [fails |-> k, content |-> c] :
        k \in 0..MAX_ATTEMPTS - 1,
        c \in {o \in OracleOutcomes : o.kind \in {"text", "empty"}} }
    \cup { [fails |-> MAX_ATTEMPTS, content |-> [kind |-> "error"]] }

\* LLMService.generate(system_prompt, user_prompt): the loop over
\* range(max_attempts); a failed attempt that is not the last is followed
\* by time.sleep(5), the last one by the return of the "Error: ..." text.
Generate(invocation) ==
    IF invocation.fails < MAX_ATTEMPTS
    THEN [output |-> invocation.content,
          attempts |-> invocation.fails + 1,
          waits |-> invocation.fails]
    ELSE [output |-> [kind |-> "error"],
          attempts |-> MAX_ATTEMPTS,
          waits |-> MAX_ATTEMPTS - 1]

\* The generate calls of _call_llm: the runs of the loop, and an exception
\* raised outside it.
GenerateRuns ==
    { Generate(i) : i \in InvokeRuns }
    \cup { [output |-> [kind |-> "raise"], attempts |-> 0, waits |-> 0] }

NotCalled == [t |-> "not_called"]

\* An EntityMatch of classification.all_entities
ClassifiedEntity ==
    [entity_type |-> "PRODUCTO", entity_value |-> "POWER GOLD", position |-> 0, length |-> 10]

\* ClassificationResult values of classify: a SMALLTALK result is built with
\* an empty all_entities; any other intent comes with the entities found.
Classifications ==
    { [intent |-> "SMALLTALK", all_entities |-> <<>>] }
    \cup { [intent |-> i, all_entities |-> e] :
             i \in Intents \ {"SMALLTALK"}, e \in {<<>>, <<ClassifiedEntity>>} }

\* What search_with_context gives handle_message: a list of candidates
\* (entity ids), or an exception
SearchOutcomes ==
    { [raised |-> TRUE, value |-> <<>>] }
    \cup { [raised |-> FALSE, value |-> v] : v \in {<<>>, <<"p1">>} }

\* build_attachments(candidates): one card for each candidate that has a
\* row in the products file, in the order of the candidates
BuildAttachments(candidates) ==
    { SelectSeq(candidates, LAMBDA c : c \in known) : known \in SUBSET {"p1"} }

(***************************************************************************)
(* ConversationManager.handle_message (chat_domain/manager.py)             *)
(***************************************************************************)
IdleHM ==
    /\ hm_pc = "idle" /\ user_text = "" /\ classification = JNull
    /\ llm_output = JNull /\ llm_response = JNull /\ optimized_data = JNull
    /\ llm_attempts = 0 /\ llm_waits = 0
    /\ search_arg = NotCalled /\ hm_trace = <<>>
    /\ final_candidates = <<>> /\ attachments = <<>>

InitHM ==
    /\ hm_pc = "classify"
    /\ user_text \in Queries
    /\ classification = JNull
    /\ llm_output = JNull
    /\ llm_attempts = 0
    /\ llm_waits = 0
    /\ llm_response = JNull
    /\ optimized_data = JNull
    /\ search_arg = NotCalled
    /\ hm_trace = <<>>
    /\ final_candidates = <<>>
    /\ attachments = <<>>

\* PASO 1: classification = self.ner.classify(user_text)
HM_Classify ==
    /\ hm_pc = "classify"
    /\ classification' \in Classifications
    /\ hm_trace' = Append(hm_trace, "classify")
    /\ hm_pc' = "optimize"
    /\ UNCHANGED <<user_text, llm_output, llm_attempts, llm_waits, llm_response,
                   optimized_data, search_arg, final_candidates, attachments>>
    /\ UNCHANGED <<s_vars, n_vars, fn_vars>>

\* PASO 3: optimized_data = self.optimizer.optimize(user_text, classification, ...)
HM_Optimize ==
    /\ hm_pc = "optimize"
    /\ \E run \in GenerateRuns :
          LET outcome == run.output
              response == CallLlm(user_text, outcome)
              o == Optimize(user_text, classification, response)
          IN  /\ llm_output' = outcome
              /\ llm_attempts' = run.attempts
              /\ llm_waits' = run.waits
              /\ llm_response' = response
              /\ optimized_data' = o.value
              /\ hm_trace' = hm_trace \o <<"oracle", o.stage>>
              /\ hm_pc' = IF o.raised THEN "raised" ELSE "search"
    /\ UNCHANGED <<user_text, classification, search_arg, final_candidates, attachments>>
    /\ UNCHANGED <<s_vars, n_vars, fn_vars>>

\* PASO 4 calling search_with_context whatever the intent
HM_Search_AnyIntent ==
    /\ hm_pc = "search"
    /\ search_arg' = optimized_data
    /\ hm_trace' = Append(hm_trace, "search")
    /\ hm_pc' = "respond"
    /\ final_candidates' = <<"p1">>
    /\ UNCHANGED <<user_text, classification, llm_output, llm_attempts, llm_waits,
                   llm_response, optimized_data, attachments>>
    /\ UNCHANGED <<s_vars, n_vars, fn_vars>>

\* PASO 4: final_candidates = self.rag.search_with_context(optimized_data=..., top_k=...)
\* The call returns a list of candidates or raises.
HM_Search ==
    /\ hm_pc = "search"
    /\ classification.intent # "SMALLTALK"
    /\ search_arg' = optimized_data
    /\ hm_trace' = Append(hm_trace, "search")
    /\ \E outcome \in SearchOutcomes :
          IF outcome.raised
          THEN hm_pc' = "search_raised" /\ UNCHANGED final_candidates
          ELSE hm_pc' = "respond" /\ final_candidates' = outcome.value
    /\ UNCHANGED <<user_text, classification, llm_output, llm_attempts, llm_waits,
                   llm_response, optimized_data, attachments>>
    /\ UNCHANGED <<s_vars, n_vars, fn_vars>>

\* PASO 4 skipped: intent == "SMALLTALK"
HM_NoSearch ==
    /\ hm_pc = "search"
    /\ classification.intent = "SMALLTALK"
    /\ hm_pc' = "respond"
    /\ UNCHANGED <<user_text, classification, llm_output, llm_attempts, llm_waits,
                   llm_response, optimized_data, search_arg, hm_trace,
                   final_candidates, attachments>>
    /\ UNCHANGED <<s_vars, n_vars, fn_vars>>

\* PASO 6 with generate_response: the answer is generated and the entities
\* are stored; c.score is read on every stored EntityMatch, which has no
\* such attribute (AttributeError).
HM_Respond ==
    /\ hm_pc = "respond"
    /\ hm_pc' = IF classification.all_entities # <<>> THEN "store_raised" ELSE "attach"
    /\ UNCHANGED <<user_text, classification, llm_output, llm_attempts, llm_waits,
                   llm_response, optimized_data, search_arg, hm_trace,
                   final_candidates, attachments>>
    /\ UNCHANGED <<s_vars, n_vars, fn_vars>>

\* PASO 6 without generate_response (test mode)
HM_SkipRespond ==
    /\ hm_pc = "respond"
    /\ hm_pc' = "attach"
    /\ UNCHANGED <<user_text, classification, llm_output, llm_attempts, llm_waits,
                   llm_response, optimized_data, search_arg, hm_trace,
                   final_candidates, attachments>>
    /\ UNCHANGED <<s_vars, n_vars, fn_vars>>

\* PASO 7: attachments = [] unless has_results and final_candidates, then
\* build_attachments(final_candidates); the dict is returned.
HM_Attach ==
    /\ hm_pc = "attach"
    /\ LET has_results == final_candidates # <<>> IN
         IF has_results /\ final_candidates # <<>>
         THEN attachments' \in BuildAttachments(final_candidates)
         ELSE attachments' = <<>>
    /\ hm_pc' = "done"
    /\ UNCHANGED <<user_text, classification, llm_output, llm_attempts, llm_waits,
                   llm_response, optimized_data, search_arg, hm_trace, final_candidates>>
    /\ UNCHANGED <<s_vars, n_vars, fn_vars>>

(***************************************************************************)
(* Idle values of the variables a specification does not use.              *)
(***************************************************************************)
IdleSearch ==
    /\ s_pc = "idle" /\ filters = EmptyDict /\ query_text = "" /\ top_k = 0 /\ raw_results = <<>>
    /\ scored = <<>> /\ filtered = <<>> /\ results = <<>>

IdleNER ==
    /\ n_pc = "idle" /\ query_clean = <<>> /\ lexicon = <<>> /\ todo = {}
    /\ matches = <<>> /\ final_matches = <<>>

IdleWeightFit ==
    wf_pc = "idle" /\ wf_product = <<>> /\ wf_target = <<>> /\ wf_score = 0

IdleFilterEntities ==
    fe_pc = "idle" /\ fe_entities = <<>> /\ fe_query = <<>> /\ fe_filtered = <<>>

IdleConcurrent ==
    /\ c_lexicon = <<>> /\ c_pc = <<>> /\ c_query = <<>> /\ c_todo = <<>>
    /\ c_matches = <<>> /\ c_result = <<>>

IdleWeightExtract ==
    we_pc = "idle" /\ we_title = <<>> /\ we_result = <<>>

IdleFn == IdleWeightFit /\ IdleFilterEntities /\ IdleConcurrent /\ IdleWeightExtract

(***************************************************************************)
(* SpecOptimize: one handle_message call.                                  *)
(***************************************************************************)
InitOptimize == InitHM /\ IdleSearch /\ IdleNER /\ IdleFn

NextOptimize ==
    \/ HM_Classify
    \/ HM_Optimize
    \/ HM_Search
    \/ HM_NoSearch
    \/ HM_Respond
    \/ HM_SkipRespond
    \/ HM_Attach

SpecOptimize == InitOptimize /\ [][NextOptimize]_vars

\* a occurs before b in the trace of the call
Before(a, b) ==
    \E i, j \in 1..Len(hm_trace) : i < j /\ hm_trace[i] = a /\ hm_trace[j] = b

\* The oracle call failed or its output is not a JSON object.
OracleFailed ==
    \/ llm_output.kind \in {"raise", "empty", "error"}
    \/ /\ llm_output.kind = "text"
       /\ \/ ~llm_output.text.json
          \/ llm_output.text.value.t # "obj"

\* C1: a draft of the oracle reaches search_with_context only after
\* _post_process_response has been applied to it (what is handed to the
\* search is the validated draft, and the validation stage precedes the
\* search stage); otherwise what reaches it is the fallback, whose
\* search_filters are empty.
C1_ValidatedBeforeSearch ==
    search_arg # NotCalled =>
        IF Truthy(llm_response)
        THEN /\ Before("validate", "search")
             /\ PostProcessResponse(llm_response.d, user_text)
                    = [raised |-> FALSE, value |-> search_arg]
        ELSE /\ Before("fallback", "search")
             /\ search_arg.d["search_filters"] = JObj(EmptyDict)

\* C1 witness: a draft that validation had to repair reached the search.
C1_Witness ==
    /\ search_arg # NotCalled
    /\ Truthy(llm_response)
    /\ search_arg # llm_response

\* C2: when the oracle call fails or its output is not a JSON object,
\* optimize does not raise and returns the fallback: search_input is the
\* raw query, search_filters is empty, intent is the classified intent.
C2_FallbackOnOracleFailure ==
    (hm_pc \in {"search", "done", "raised"} /\ OracleFailed) =>
        /\ hm_pc # "raised"
        /\ optimized_data.t = "obj"
        /\ optimized_data.d["search_input"] = JStr(user_text)
        /\ optimized_data.d["search_filters"] = JObj(EmptyDict)
        /\ optimized_data.d["intent"] = JStr(classification.intent)

\* C2 witness: unparsable oracle output for a RECOMMENDATION query, answered
\* by the fallback.
C2_Witness ==
    /\ hm_pc = "search"
    /\ llm_output.kind = "text" /\ ~llm_output.text.json
    /\ classification.intent = "RECOMMENDATION"
    /\ optimized_data = FallbackResponse(user_text, "RECOMMENDATION")

(***************************************************************************)
(* VectorSearchService (rag_domain/search.py): sub-scores.                 *)
(* Scores and weights are in hundredths.                                   *)
(***************************************************************************)
WEIGHT_SEMANTIC == 100
WEIGHT_BRAND_SIMILARITY == 100
WEIGHT_NAME_SIMILARITY == 150
WEIGHT_WEIGHT_FIT == 100
WEIGHT_ATTRIBUTES == 50
OFFER_BOOST == 200
TRANSFER_BOOST == 150
OFFER_SOFT_BOOST == 50
TRANSFER_SOFT_BOOST == 30
THRESHOLD_SPECIFIC == 800
THRESHOLD_FAMILY == 500
THRESHOLD_CATEGORY == 300

\* _normalize_input(text_val) of a value
NormalizeInput(v) == IF ~Truthy(v) THEN "" ELSE Lower(Strip(StrOf(v)))

\* _is_true(value)
IsTrue(v) ==
    IF v.t = "bool" THEN v.b
    ELSE Lower(StrOf(v)) \in {"true", "1", "yes", "si"}

\* str(weight_range_str).split('-'): the parts, each a number float() accepts
\* ([num |-> TRUE, v]) or a text it rejects with ValueError.
SplitDash(s) ==
    CASE s = "4-10" -> <<[num |-> TRUE, v |-> 4], [num |-> TRUE, v |-> 10]>>
      [] s = "12-18" -> <<[num |-> TRUE, v |-> 12], [num |-> TRUE, v |-> 18]>>
      [] s = "5-12" -> <<[num |-> TRUE, v |-> 5], [num |-> TRUE, v |-> 12]>>
      [] s = "30-40" -> <<[num |-> TRUE, v |-> 30], [num |-> TRUE, v |-> 40]>>
      [] s = "21-23" -> <<[num |-> TRUE, v |-> 21], [num |-> TRUE, v |-> 23]>>
      [] s = "4-10kg" -> <<[num |-> TRUE, v |-> 4], [num |-> FALSE, v |-> 0]>>
      [] s = "4-10-20" -> <<[num |-> TRUE, v |-> 4], [num |-> TRUE, v |-> 10],
                            [num |-> TRUE, v |-> 20]>>
      [] s = "10" -> <<[num |-> TRUE, v |-> 10]>>
      [] OTHER -> <<[num |-> FALSE, v |-> 0]>>

NoRange == <<>>

\* _parse_weight_range(weight_range_str): <<min, max>> or NoRange (None)
ParseWeightRange(w) ==
    IF ~Truthy(w) \/ Strip(StrOf(w)) \in {"", "0", "None", "null"} THEN NoRange
    ELSE LET parts == SplitDash(StrOf(w)) IN
         IF Len(parts) = 2 /\ parts[1].num /\ parts[2].num
         THEN <<parts[1].v, parts[2].v>>
         ELSE NoRange

\* _score_weight_fit without the scores of near misses: disjoint ranges get 0
ScoreWeightFit_NoNearMiss(product_weight_range, target_min, target_max) ==
    IF product_weight_range = NoRange THEN 0
    ELSE LET product_min == product_weight_range[1]
             product_max == product_weight_range[2]
             target_size == target_max - target_min
             overlap_size == (IF product_max <= target_max THEN product_max ELSE target_max)
                               - (IF product_min >= target_min THEN product_min ELSE target_min)
             Above(tenths) == target_size > 0 /\ overlap_size * 10 > tenths * target_size
         IN  IF product_min >= target_min /\ product_max <= target_max THEN 400
             ELSE IF product_max < target_min \/ product_min > target_max THEN 0
             ELSE IF Above(7) THEN 350
             ELSE IF Above(5) THEN 300
             ELSE IF Above(3) THEN 250
             ELSE 200

\* _score_weight_fit(product_weight_range, target_min, target_max), on numbers
ScoreWeightFit(product_weight_range, target_min, target_max) ==
    IF product_weight_range = NoRange THEN 0
    ELSE LET product_min == product_weight_range[1]
             product_max == product_weight_range[2]
             Max(a, b) == IF a >= b THEN a ELSE b
             Min(a, b) == IF a <= b THEN a ELSE b
             target_size == target_max - target_min
         IN  IF product_min >= target_min /\ product_max <= target_max THEN 400
             ELSE IF ~(product_max < target_min \/ product_min > target_max)
             THEN LET overlap_size == Min(product_max, target_max)
                                        - Max(product_min, target_min)
                      \* overlap_ratio = overlap_size / target_size, 0 if target_size <= 0
                      Above(tenths) == /\ target_size > 0
                                       /\ overlap_size * 10 > tenths * target_size
                  IN  IF Above(7) THEN 350
                      ELSE IF Above(5) THEN 300
                      ELSE IF Above(3) THEN 250
                      ELSE 200
             ELSE LET distance == IF product_max < target_min
                                  THEN target_min - product_max
                                  ELSE product_min - target_max
                      \* relative_distance = distance / target_range, 999 if target_range <= 0
                      Below(tenths) == /\ target_size > 0
                                       /\ distance * 10 < tenths * target_size
                  IN  IF Below(2) THEN 200
                      ELSE IF Below(5) THEN 100
                      ELSE 0

\* SequenceMatcher(None, a, b).ratio() in hundredths, for the brand texts of
\* the model that are neither equal nor contained in one another
BrandRatio(a, b) ==
    CASE {a, b} = {"holiday", "holliday"} -> 93
      [] {a, b} = {"bayer", "holliday"} -> 30
      [] OTHER -> 0

\* _score_brand_similarity(product_brand, filter_brand)
ScoreBrandSimilarity(product_brand, filter_brand) ==
    LET product_clean == Lower(Strip(product_brand))
        filter_clean == Lower(Strip(filter_brand))
    IN  IF product_clean = "" \/ filter_clean = "" THEN 0
        ELSE IF product_clean = filter_clean THEN 500
        ELSE IF InText(filter_clean, product_clean) \/ InText(product_clean, filter_clean)
        THEN 300
        ELSE LET similarity == BrandRatio(product_clean, filter_clean) IN
             IF similarity > 80 THEN 200 ELSE IF similarity > 60 THEN 100 ELSE 0

\* set(self._normalize_input(text).split()) for the titles and search terms
\* of the model
Tokens(text) ==
    CASE text = "power gold" -> {"power", "gold"}
      [] text = "power gold 4-10kg" -> {"power", "gold", "4-10kg"}
      [] text = "power gold promo" -> {"power", "gold", "promo"}
      [] text = "bravecto" -> {"bravecto"}
      [] text = "pipeta para perros" -> {"pipeta", "para", "perros"}
      [] text = "pipeta power" -> {"pipeta", "power"}
      [] OTHER -> {}

\* _score_name_similarity(product_name, query_name)
ScoreNameSimilarity(product_name, query_name) ==
    LET stop_words == {"de", "para", "con", "sin", "x", "y", "en"}
        product_tokens == Tokens(NormalizeInput(JStr(product_name))) \ stop_words
        query_tokens == Tokens(NormalizeInput(JStr(query_name))) \ stop_words
        common == Cardinality(product_tokens \cap query_tokens)
        union == Cardinality(product_tokens \cup query_tokens)
        \* jaccard = common / union >= tenths / 10
        AtLeast(tenths) == union > 0 /\ common * 10 >= tenths * union
    IN  IF query_tokens = {} THEN 0
        ELSE IF AtLeast(8) THEN 500
        ELSE IF AtLeast(6) THEN 400
        ELSE IF AtLeast(4) THEN 200
        ELSE IF AtLeast(2) THEN 100
        ELSE 0

\* _score_attributes(metadata, filters), for string filter values
ScoreAttributes(metadata, f) ==
    LET hit(key, meta_key) ==
            IF /\ Truthy(Get(f, key))
               /\ InText(Lower(StrOf(f[key])), Lower(StrOf(GetOr(metadata, meta_key, JStr("")))))
            THEN 50 ELSE 0
    IN  hit("category", "category") + hit("presentation", "presentation")
          + hit("species", "species_filter") + hit("drug", "drug")

(***************************************************************************)
(* VectorSearchService: the stages of search_with_context.                 *)
(***************************************************************************)
\* s[:n]
Take(s, n) == SubSeq(s, 1, IF n < Len(s) THEN n ELSE Len(s))

\* list.sort(key=lambda x: x['total_score'], reverse=True): stable
RECURSIVE SortByScoreDesc(_)
SortByScoreDesc(s) ==
    IF s = <<>> THEN <<>>
    ELSE LET init == SortByScoreDesc(SubSeq(s, 1, Len(s) - 1))
             x == s[Len(s)]
             \* x goes after every element whose score is not lower
             n == Cardinality({i \in 1..Len(init) : init[i].total_score >= x.total_score})
         IN  SubSeq(init, 1, n) \o <<x>> \o SubSeq(init, n + 1, Len(init))

\* _calculate_adaptive_top_k without the cap of 15
CalculateAdaptiveTopK_Uncapped(f, base_top_k) ==
    IF \E k \in {"weight_min", "weight_max", "brand", "drug",
                 "exclude_brands", "presentation", "species"} : Truthy(Get(f, k))
    THEN base_top_k * 2
    ELSE base_top_k

\* _calculate_adaptive_top_k(filters, base_top_k)
CalculateAdaptiveTopK(f, base_top_k) ==
    LET has_specific_filters ==
            \E k \in {"weight_min", "weight_max", "brand", "drug",
                      "exclude_brands", "presentation", "species"} : Truthy(Get(f, k))
    IN  IF has_specific_filters
        THEN (IF base_top_k * 2 < 15 THEN base_top_k * 2 ELSE 15)
        ELSE base_top_k

\* One iteration of the loop of _apply_gradual_scoring_conditional.
\* weight_error: _score_weight_fit compares a number with None (TypeError).
ScoreRow(row, f, qtext) ==
    LET meta == row.metadata
        brand_score ==
            IF Truthy(Get(f, "brand"))
            THEN ScoreBrandSimilarity(StrOf(GetOr(meta, "enterprise_title", JStr(""))),
                                      StrOf(f["brand"]))
            ELSE 0
        name_score ==
            IF qtext # ""
            THEN ScoreNameSimilarity(StrOf(GetOr(meta, "title", JStr(""))), qtext)
            ELSE 0
        wanted == Truthy(Get(f, "weight_min")) \/ Truthy(Get(f, "weight_max"))
        weight_range == IF wanted THEN ParseWeightRange(Get(meta, "weight_range"))
                        ELSE NoRange
        target_min == GetOr(f, "weight_min", JNum(0))
        target_max == GetOr(f, "weight_max", JNum(999))
        weight_error == /\ weight_range # NoRange
                        /\ (target_min.t # "num" \/ target_max.t # "num")
        weight_score ==
            IF weight_range # NoRange /\ ~weight_error
            THEN ScoreWeightFit(weight_range, target_min.n, target_max.n)
            ELSE 0
        attribute_score == ScoreAttributes(meta, f)
        product_is_offer == IsTrue(Get(meta, "is_offer"))
        product_has_transfer == IsTrue(Get(meta, "has_transfer"))
        commercial_boost ==
            (IF product_is_offer
             THEN (IF Truthy(GetOr(f, "is_offer", JBool(FALSE)))
                   THEN OFFER_BOOST ELSE OFFER_SOFT_BOOST)
             ELSE 0)
            + (IF product_has_transfer
               THEN (IF Truthy(GetOr(f, "is_transfer", JBool(FALSE)))
                     THEN TRANSFER_BOOST ELSE TRANSFER_SOFT_BOOST)
               ELSE 0)
    IN  [entity_id |-> row.entity_id,
         metadata |-> meta,
         total_score |->
             (row.semantic_score * WEIGHT_SEMANTIC) \div 100
             + row.keyword_score
             + row.exact_match_score
             + (brand_score * WEIGHT_BRAND_SIMILARITY) \div 100
             + (name_score * WEIGHT_NAME_SIMILARITY) \div 100
             + (weight_score * WEIGHT_WEIGHT_FIT) \div 100
             + (attribute_score * WEIGHT_ATTRIBUTES) \div 100
             + commercial_boost,
         weight_fit |-> weight_score,
         weight_error |-> weight_error]

\* _apply_gradual_scoring_conditional dropping, when a weight is requested,
\* the candidates whose weight_range cannot be parsed
ApplyGradualScoring_DropsUnparsable(rows, f, qtext) ==
    LET wanted == Truthy(Get(f, "weight_min")) \/ Truthy(Get(f, "weight_max"))
        parsable(r) == ~wanted \/ ParseWeightRange(Get(r.metadata, "weight_range")) # NoRange
        kept == SelectSeq(rows, parsable)
        out == [i \in 1..Len(kept) |-> ScoreRow(kept[i], f, qtext)]
    IN  [raised |-> \E i \in 1..Len(out) : out[i].weight_error,
         rows |-> out]

\* _apply_gradual_scoring_conditional(raw_results, filters, query_text):
\* [raised, rows]
ApplyGradualScoring(rows, f, qtext) ==
    LET out == [i \in 1..Len(rows) |-> ScoreRow(rows[i], f, qtext)] IN
    [raised |-> \E i \in 1..Len(out) : out[i].weight_error,
     rows |-> out]

\* _apply_adaptive_threshold(scored, filters)
\* the minimum total_score chosen from the kind of search
AdaptiveThreshold(f) ==
    IF Truthy(Get(f, "target_products")) THEN THRESHOLD_SPECIFIC
    ELSE IF Truthy(Get(f, "brand")) \/ Truthy(Get(f, "laboratorios"))
         THEN THRESHOLD_FAMILY
         ELSE THRESHOLD_CATEGORY

ApplyAdaptiveThreshold(sc, f) ==
    LET reaches(c) == c.total_score >= AdaptiveThreshold(f)
        kept == SelectSeq(sc, reaches)
    IN  IF Len(kept) < 3 /\ Len(sc) >= 3 THEN Take(sc, 3) ELSE kept

\* The candidate is promotional (an offer or a transfer).
IsPromo(c) ==
    IsTrue(Get(c.metadata, "is_offer")) \/ IsTrue(Get(c.metadata, "has_transfer"))

\* _diversify_results taking the promotional share from the whole list
DiversifyResults_Repeating(res, k) ==
    LET offers == SelectSeq(res, IsPromo)
        notPromo(c) == ~IsPromo(c)
        products == SelectSeq(res, notPromo)
        target_products == (k * 7) \div 10
        target_offers == k - target_products
    IN  IF res = <<>> THEN res
        ELSE IF Len(products) < 2 \/ Len(offers) < 1 THEN Take(res, k)
        ELSE SortByScoreDesc(Take(products, target_products) \o Take(res, target_offers))

\* search_with_context without the diversification step
DiversifyResults_Skipped(res, k) == res

\* _diversify_results(results, top_k)
DiversifyResults(res, k) ==
    LET offers == SelectSeq(res, IsPromo)
        notPromo(c) == ~IsPromo(c)
        products == SelectSeq(res, notPromo)
        target_products == (k * 7) \div 10       \* int(top_k * 0.7), top_k < 90
        target_offers == k - target_products
    IN  IF res = <<>> THEN res
        ELSE IF Len(products) < 2 \/ Len(offers) < 1 THEN Take(res, k)
        ELSE SortByScoreDesc(Take(products, target_products) \o Take(offers, target_offers))

(***************************************************************************)
(* Inputs of one search_with_context call.                                 *)
(***************************************************************************)
\* optimized_data values handed to the search: search_input, search_filters
SearchRequests ==
    { [search_input |-> "power gold", search_filters |-> EmptyDict],
      [search_input |-> "power gold",
       search_filters |-> MkDict([brand |-> JStr("HOLLIDAY")])],
      [search_input |-> "power gold",
       search_filters |-> MkDict([is_offer |-> JBool(TRUE)])],
      [search_input |-> "power gold",
       search_filters |-> MkDict([is_offer |-> JBool(TRUE), is_transfer |-> JBool(TRUE)])],
      [search_input |-> "power gold",
       search_filters |-> MkDict([weight_min |-> JNum(10), weight_max |-> JNum(20)])],
      [search_input |-> "power gold",
       search_filters |-> MkDict([weight_min |-> JNull, weight_max |-> JNum(20)])],
      [search_input |-> "power gold",
       search_filters |-> MkDict([weight_min |-> JNum(10), weight_max |-> JNull])],
      [search_input |-> "power gold",
       search_filters |-> MkDict([weight_max |-> JNum(20)])],
      [search_input |-> "power gold",
       search_filters |-> MkDict([target_products |-> JList(<<JStr("POWER GOLD")>>)])],
      [search_input |-> "pipeta power",
       search_filters |-> MkDict([species |-> JStr("PERRO"),
                                  presentation |-> JStr("pipeta"),
                                  category |-> JStr("antiparasitario")])] }

\* Rows of the embeddings table: semantic_score and keyword_score as the
\* database computes them for the query, and the row's metadata.
RowTemplates ==
    { [semantic_score |-> 90, keyword_score |-> 200,
       metadata |-> MkDict([title |-> JStr("Power Gold 4-10kg"),
                            enterprise_title |-> JStr("HOLLIDAY"),
                            weight_range |-> JStr("4-10"),
                            category |-> JStr("antiparasitario"),
                            species_filter |-> JStr("perro"),
                            presentation |-> JStr("pipeta"),
                            is_offer |-> JBool(FALSE)])],
      [semantic_score |-> 30, keyword_score |-> 0,
       metadata |-> MkDict([title |-> JStr("Bravecto"),
                            enterprise_title |-> JStr("BAYER")])],
      [semantic_score |-> 40, keyword_score |-> 0,
       metadata |-> MkDict([title |-> JStr("Power Gold promo"),
                            enterprise_title |-> JStr("HOLLIDAY SCOTT"),
                            weight_range |-> JStr("12-18"),
                            species_filter |-> JStr("perro"),
                            presentation |-> JStr("pipeta"),
                            is_offer |-> JBool(TRUE)])],
      [semantic_score |-> 80, keyword_score |-> 200,
       metadata |-> MkDict([title |-> JStr("Power Gold"),
                            enterprise_title |-> JStr("HOLIDAY"),
                            filter_lab |-> JStr("holliday"),
                            weight_range |-> JStr("30-40"),
                            is_offer |-> JStr("true")])],
      [semantic_score |-> 60, keyword_score |-> 200,
       metadata |-> MkDict([title |-> JStr("Bravecto"),
                            enterprise_title |-> JStr("BAYER"),
                            weight_range |-> JStr("4-10kg"),
                            has_transfer |-> JBool(TRUE)])],
      [semantic_score |-> 95, keyword_score |-> 200,
       metadata |-> MkDict([title |-> JStr("Bravecto"),
                            enterprise_title |-> JStr("HOLLIDAY"),
                            weight_range |-> JStr("5-12")])] }

\* exact_match_score of the SELECT of _search_with_soft_filters
ExactMatchScore(meta, f) ==
    (IF /\ Truthy(Get(f, "category"))
        /\ Lower(StrOf(Get(meta, "category"))) = Lower(StrOf(f["category"]))
     THEN 300 ELSE 0)
    + (IF /\ Truthy(Get(f, "drug"))
          /\ "drug" \in DOMAIN meta
          /\ InText(Lower(StrOf(f["drug"])), Lower(StrOf(meta["drug"])))
       THEN 210 ELSE 0)

\* The WHERE clause of _search_with_soft_filters (a comparison with a
\* missing metadata key is NULL, which does not select the row).
RowSelected(meta, f) ==
    LET like(key, pattern) ==
            key \in DOMAIN meta /\ InText(pattern, Lower(StrOf(meta[key])))
    IN  /\ Truthy(Get(f, "brand")) =>
               \/ like("enterprise_title", NormalizeInput(f["brand"]))
               \/ like("filter_lab", NormalizeInput(f["brand"]))
        /\ Truthy(Get(f, "species")) =>
               like("species_filter", NormalizeInput(f["species"]))
        /\ Truthy(Get(f, "presentation")) =>
               like("presentation", NormalizeInput(f["presentation"]))
        /\ (Truthy(Get(f, "is_offer")) \/ Truthy(Get(f, "is_transfer"))) =>
               \/ Truthy(Get(f, "is_offer")) /\ IsTrue(Get(meta, "is_offer"))
               \/ Truthy(Get(f, "is_transfer")) /\ IsTrue(Get(meta, "has_transfer"))

\* The row of the result set made from a template: entity_id is its rank.
Row(tpl, f, i) ==
    [entity_id |-> i,
     semantic_score |-> tpl.semantic_score,
     keyword_score |-> tpl.keyword_score,
     exact_match_score |-> ExactMatchScore(tpl.metadata, f),
     metadata |-> tpl.metadata]

\* The ORDER BY expression of _search_with_soft_filters
BaseScore(row) ==
    (row.semantic_score * WEIGHT_SEMANTIC) \div 100
      + row.keyword_score + row.exact_match_score

\* The result sets _search_with_soft_filters can return: selected rows,
\* in the order of the ORDER BY, at most LIMIT of them.
ResultSets(f, limit) ==
    LET selected == {t \in RowTemplates : RowSelected(t.metadata, f)}
        lists == UNION { [1..n -> selected] : n \in 0..MaxHits }
        rows(l) == [i \in 1..Len(l) |-> Row(l[i], f, i)]
    IN  { rows(l) : l \in
            { x \in lists :
                /\ Len(x) <= limit
                /\ \A i \in 1..Len(x) - 1 :
                       BaseScore(Row(x[i], f, i)) >= BaseScore(Row(x[i + 1], f, i + 1)) } }

(***************************************************************************)
(* search_with_context(optimized_data, search_history, top_k)              *)
(***************************************************************************)
EffectiveTopK == CalculateAdaptiveTopK(filters, top_k)

\* INTENT_TOP_K_MAP["SEARCH"]
SEARCH_TOP_K == 8

\* the top_k a caller asks for: small values, and the one of a SEARCH intent
RequestedTopK == (1..MaxTopK) \cup {SEARCH_TOP_K}

InitSearch ==
    /\ s_pc = "retrieve"
    /\ \E req \in SearchRequests :
          /\ filters = req.search_filters
          /\ query_text = req.search_input
    /\ top_k \in RequestedTopK
    /\ raw_results = <<>>
    /\ scored = <<>>
    /\ filtered = <<>>
    /\ results = <<>>

\* raw_results = self._search_with_soft_filters(...)
S_Retrieve ==
    /\ s_pc = "retrieve"
    /\ raw_results' \in ResultSets(filters, EffectiveTopK * 20)
    /\ s_pc' = "score"
    /\ UNCHANGED <<filters, query_text, top_k, scored, filtered, results>>
    /\ UNCHANGED <<hm_vars, n_vars, fn_vars>>

\* scored = self._apply_gradual_scoring_conditional(raw_results, filters, query_text)
S_Score ==
    /\ s_pc = "score"
    /\ LET sc == ApplyGradualScoring(raw_results, filters, query_text) IN
         IF sc.raised
         THEN s_pc' = "raised" /\ scored' = <<>>
         ELSE s_pc' = "threshold" /\ scored' = sc.rows
    /\ UNCHANGED <<filters, query_text, top_k, raw_results, filtered, results>>
    /\ UNCHANGED <<hm_vars, n_vars, fn_vars>>

\* filtered = self._apply_adaptive_threshold(scored, filters)
S_Threshold ==
    /\ s_pc = "threshold"
    /\ filtered' = ApplyAdaptiveThreshold(scored, filters)
    /\ s_pc' = "diversify"
    /\ UNCHANGED <<filters, query_text, top_k, raw_results, scored, results>>
    /\ UNCHANGED <<hm_vars, n_vars, fn_vars>>

\* if not is_offer and not is_transfer: filtered = self._diversify_results(...)
S_Diversify ==
    /\ s_pc = "diversify"
    /\ ~Truthy(Get(filters, "is_offer")) /\ ~Truthy(Get(filters, "is_transfer"))
    /\ filtered' = DiversifyResults(filtered, EffectiveTopK)
    /\ s_pc' = "rank"
    /\ UNCHANGED <<filters, query_text, top_k, raw_results, scored, results>>
    /\ UNCHANGED <<hm_vars, n_vars, fn_vars>>

\* promotions were requested: no diversification
S_NoDiversify ==
    /\ s_pc = "diversify"
    /\ Truthy(Get(filters, "is_offer")) \/ Truthy(Get(filters, "is_transfer"))
    /\ s_pc' = "rank"
    /\ UNCHANGED <<filters, query_text, top_k, raw_results, scored, filtered, results>>
    /\ UNCHANGED <<hm_vars, n_vars, fn_vars>>

\* the final step without filtered.sort(...)
FinalRanking_Unsorted(l, k) == Take(l, k)

\* filtered.sort(...); return filtered[:effective_top_k]
FinalRanking(l, k) == Take(SortByScoreDesc(l), k)

S_Rank ==
    /\ s_pc = "rank"
    /\ results' = FinalRanking(filtered, EffectiveTopK)
    /\ s_pc' = "done"
    /\ UNCHANGED <<filters, query_text, top_k, raw_results, scored, filtered>>
    /\ UNCHANGED <<hm_vars, n_vars, fn_vars>>

InitSearchSpec == InitSearch /\ IdleHM /\ IdleNER /\ IdleFn

NextSearch ==
    \/ S_Retrieve
    \/ S_Score
    \/ S_Threshold
    \/ S_Diversify
    \/ S_NoDiversify
    \/ S_Rank

SpecSearch == InitSearchSpec /\ [][NextSearch]_vars

(***************************************************************************)
(* Properties of search_with_context                                       *)
(***************************************************************************)
\* C3: whenever the retrieval returned at least one hit, the threshold
\* stage keeps at least one candidate and search_with_context returns a
\* non-empty list, whatever the number of hits and the filters.
C3_NeverZeroWhenCandidatesExist ==
    raw_results # <<>> =>
        /\ s_pc \in {"diversify", "rank", "done"} => filtered # <<>>
        /\ s_pc = "done" => results # <<>>

\* The candidates of l are distinct hits of raw_results, unaltered.
SubMultisetOfHits(l) ==
    /\ \A i \in 1..Len(l) :
          /\ l[i].entity_id \in 1..Len(raw_results)
          /\ l[i].metadata = raw_results[l[i].entity_id].metadata
    /\ \A i, j \in 1..Len(l) : l[i].entity_id = l[j].entity_id => i = j

\* C4: the list search_with_context returns has at most effective-top-K
\* candidates and their total_score never increases along the list.
C4_BoundedAndOrdered ==
    s_pc = "done" =>
        /\ Len(results) <= EffectiveTopK
        /\ \A i \in 1..Len(results) - 1 :
               results[i].total_score >= results[i + 1].total_score

\* a call that returned after truncating a list that was not in order
C4_Witness ==
    /\ s_pc = "done"
    /\ Len(filtered) > EffectiveTopK
    /\ Len(results) = EffectiveTopK
    /\ Len(results) >= 2
    /\ \E i \in 1..Len(filtered) - 1 :
           filtered[i].total_score < filtered[i + 1].total_score

\* C5: after scoring, after the threshold (fallback included), after the
\* diversification and on return, every candidate is one retrieval hit and
\* no hit appears twice; no hits gives an empty result and no error.
C5_NeverFabricates ==
    /\ SubMultisetOfHits(scored)
    /\ SubMultisetOfHits(filtered)
    /\ SubMultisetOfHits(results)
    /\ raw_results = <<>> /\ s_pc # "retrieve" =>
           /\ s_pc # "raised"
           /\ s_pc = "done" => results = <<>>

\* a call that returned candidates kept by the threshold fallback and
\* mixed by the diversification
C5_Witness ==
    /\ s_pc = "done"
    /\ Len(raw_results) >= 3
    /\ \E i \in 1..Len(results) : results[i].total_score < AdaptiveThreshold(filters)
    /\ \E i, j \in 1..Len(results) : IsPromo(results[i]) /\ ~IsPromo(results[j])
    /\ Len(SelectSeq(filtered, IsPromo)) >= 1

(***************************************************************************)
(* Strings of the extractor: sequences of one-character strings, so that   *)
(* searching, slicing, case conversion and similarity are computed.        *)
(***************************************************************************)
LowerCase == <<"a", "b", "c", "d", "e", "f", "g", "h", "i", "j", "k", "l", "m",
               "n", "o", "p", "q", "r", "s", "t", "u", "v", "w", "x", "y", "z">>
UpperCase == <<"A", "B", "C", "D", "E", "F", "G", "H", "I", "J", "K", "L", "M",
               "N", "O", "P", "Q", "R", "S", "T", "U", "V", "W", "X", "Y", "Z">>
Digits == <<"0", "1", "2", "3", "4", "5", "6", "7", "8", "9">>

IndexIn(seq, c) == CHOOSE i \in 1..Len(seq) : seq[i] = c
Occurs(seq, c) == \E i \in 1..Len(seq) : seq[i] = c

\* str.lower() and str.upper(), one character
CharLower(c) == IF Occurs(UpperCase, c) THEN LowerCase[IndexIn(UpperCase, c)] ELSE c
CharUpper(c) == IF Occurs(LowerCase, c) THEN UpperCase[IndexIn(LowerCase, c)] ELSE c

\* str.isalnum(), one character
IsAlnum(c) == Occurs(LowerCase, c) \/ Occurs(UpperCase, c) \/ Occurs(Digits, c)

\* the code point of a character, for the comparison of strings
Ord(c) ==
    IF Occurs(Digits, c) THEN 47 + IndexIn(Digits, c)
    ELSE IF Occurs(UpperCase, c) THEN 64 + IndexIn(UpperCase, c)
    ELSE IF Occurs(LowerCase, c) THEN 96 + IndexIn(LowerCase, c)
    ELSE 32

StrLower(s) == [i \in 1..Len(s) |-> CharLower(s[i])]
StrUpper(s) == [i \in 1..Len(s) |-> CharUpper(s[i])]

\* a < b for two strings
StrLess(a, b) ==
    \E k \in 1..Len(b) :
        /\ k - 1 <= Len(a)
        /\ \A i \in 1..k - 1 : a[i] = b[i]
        /\ k > Len(a) \/ Ord(a[k]) < Ord(b[k])

\* s[pos:pos+n], positions counted from 0 as in the code
Slice(s, pos, n) == SubSeq(s, pos + 1, pos + n)

MatchAt(text, item, pos) ==
    /\ pos + Len(item) <= Len(text)
    /\ \A k \in 1..Len(item) : text[pos + k] = item[k]

\* text.find(item, start): the first position from start on, or -1
Find(text, item, start) ==
    LET found == {p \in start..Len(text) - Len(item) : MatchAt(text, item, p)}
    IN  IF found = {} THEN -1
        ELSE CHOOSE p \in found : \A r \in found : p <= r

\* item in text
Contains(text, item) == Find(text, item, 0) # -1

\* str.split(): the words between blanks
RECURSIVE SplitFrom(_, _, _)
SplitFrom(s, i, cur) ==
    LET flush == IF cur = <<>> THEN <<>> ELSE <<cur>> IN
    IF i > Len(s) THEN flush
    ELSE IF s[i] = " " THEN flush \o SplitFrom(s, i + 1, <<>>)
    ELSE SplitFrom(s, i + 1, Append(cur, s[i]))

SplitWords(s) == SplitFrom(s, 1, <<>>)

RECURSIVE JoinWords(_)
JoinWords(ws) ==
    IF ws = <<>> THEN <<>>
    ELSE IF Len(ws) = 1 THEN ws[1]
    ELSE ws[1] \o <<" ">> \o JoinWords(Tail(ws))

(***************************************************************************)
(* difflib.SequenceMatcher and difflib.get_close_matches                   *)
(***************************************************************************)
\* length of the common run of a from i and b from j
RECURSIVE CommonRun(_, _, _, _, _, _)
CommonRun(a, i, ahi, b, j, bhi) ==
    IF i > ahi \/ j > bhi THEN 0
    ELSE IF a[i] # b[j] THEN 0
    ELSE 1 + CommonRun(a, i + 1, ahi, b, j + 1, bhi)

\* number of matching characters: the longest common block (the earliest
\* in a, then the earliest in b), then the same to its left and its right
RECURSIVE MatchingChars(_, _, _, _, _, _)
MatchingChars(a, alo, ahi, b, blo, bhi) ==
    IF alo > ahi \/ blo > bhi THEN 0
    ELSE
      LET run == [i \in alo..ahi |-> [j \in blo..bhi |-> CommonRun(a, i, ahi, b, j, bhi)]]
          sizes == {run[i][j] : i \in alo..ahi, j \in blo..bhi}
          k == CHOOSE n \in sizes : \A m \in sizes : m <= n
          rows == {i \in alo..ahi : \E j \in blo..bhi : run[i][j] = k}
          besti == CHOOSE i \in rows : \A r \in rows : i <= r
          cols == {j \in blo..bhi : run[besti][j] = k}
          bestj == CHOOSE j \in cols : \A r \in cols : j <= r
      IN  IF k = 0 THEN 0
          ELSE k + MatchingChars(a, alo, besti - 1, b, blo, bestj - 1)
                 + MatchingChars(a, besti + k, ahi, b, bestj + k, bhi)

\* SequenceMatcher(None, a, b): matches M and total length T, ratio = 2M/T
Matches(a, b) == MatchingChars(a, 1, Len(a), b, 1, Len(b))

\* ratio(a, b) >= 0.85, after the length bound of real_quick_ratio
CloseEnough(a, b) ==
    LET la == Len(a)
        lb == Len(b)
        shorter == IF la < lb THEN la ELSE lb
    IN  /\ la + lb > 0
        /\ 40 * shorter >= 17 * (la + lb)
        /\ 40 * Matches(a, b) >= 17 * (la + lb)

\* get_close_matches(word, possibilities, n=1, cutoff=0.85): the empty list
\* or the one best possibility, best by (ratio, string)
GetCloseMatches(word, possibilities) ==
    LET close == {x \in possibilities : CloseEnough(x, word)}
        m(x) == Matches(x, word)
        t(x) == Len(x) + Len(word)
        atLeast(x, y) ==
            \/ m(x) * t(y) > m(y) * t(x)
            \/ m(x) * t(y) = m(y) * t(x) /\ (x = y \/ StrLess(y, x))
    IN  IF close = {} THEN <<>>
        ELSE <<CHOOSE x \in close : \A y \in close : atLeast(x, y)>>

(***************************************************************************)
(* VeterinaryNERClassifier._find_all_entities                              *)
(***************************************************************************)
\* EntityMatch(entity_type, entity_value, position, length, original_text)
EntityMatch(type_name, value, position, length, original_text) ==
    [entity_type |-> type_name, entity_value |-> value, position |-> position,
     length |-> length, original_text |-> original_text]

\* EntityMatch.match_diff
MatchDiff(m) ==
    IF m.original_text = <<>> THEN 0 ELSE Len(m.original_text) - m.length

\* _get_entity_type_priority
GetEntityTypePriority(entity_type) ==
    CASE entity_type = "PRODUCTO" -> 1
      [] entity_type = "LABORATORIO" -> 2
      [] entity_type = "CATEGORIA" -> 3
      [] entity_type = "DROGA" -> 4
      [] entity_type = "ACCION" -> 5
      [] entity_type = "CONCEPTO" -> 6
      [] entity_type = "ESPECIE" -> 7
      [] OTHER -> 99

\* _is_hard_overlapping without the exemption of the identical span
IsHardOverlapping_NoMultiLabel(position, length, existing_matches) ==
    \E i \in 1..Len(existing_matches) :
        LET match == existing_matches[i] IN
        ~(position + length <= match.position
            \/ position >= match.position + match.length)

\* _is_hard_overlapping(position, length, existing_matches)
IsHardOverlapping(position, length, existing_matches) ==
    \E i \in 1..Len(existing_matches) :
        LET match == existing_matches[i] IN
        /\ ~(match.position = position /\ match.length = length)
        /\ ~(position + length <= match.position
               \/ position >= match.position + match.length)

\* the words of self.ignored_terms
IGNORED_TERMS ==
    { <<"p","a","r","a">>, <<"c","o","n">>, <<"s","i","n">>, <<"l","o","s">>,
      <<"l","a","s">>, <<"u","n","a">>, <<"u","n","o","s">>, <<"d","e","l">>,
      <<"p","o","r">>, <<"u","s","o">>, <<"v","e","t","e","r","i","n","a","r","i","o">>,
      <<"e","n","v","a","s","e">>, <<"c","a","j","a">>, <<"p","e","s","o">>,
      <<"v","i","v","o">>, <<"k","p","v">>, <<"k","i","l","o","s">>,
      <<"c","o","m","p","r","i","m","i","d","o">>,
      <<"c","o","m","p","r","i","m","i","d","o","s">>, <<"m","l">>, <<"m","g">>,
      <<"g","r">>, <<"a","c","c","i","o","n">>,
      <<"t","e","r","a","p","e","u","t","i","c","a">>,
      <<"t","r","a","t","a","m","i","e","n","t","o">>,
      <<"e","n","f","e","r","m","e","d","a","d","e","s">>, <<"a","m","p","l","i","o">>,
      <<"e","s","p","e","c","t","r","o">>, <<"v","i","a">>, <<"o","r","a","l">>,
      <<"p","r","o","d","u","c","t","o">>, <<"p","r","o","d","u","c","t","o","s">>,
      <<"l","i","s","t","a">>, <<"p","r","e","c","i","o">>, <<"v","e","n","t","a">> }

\* the while loop of search_exact for one item: every occurrence from
\* start_index on, kept if it sits between boundaries and overlaps nothing
RECURSIVE ExactOccurrences(_, _, _, _, _)
ExactOccurrences(ms, query_lower, item, type_name, start_index) ==
    LET item_lower == StrLower(item)
        pos == Find(query_lower, item_lower, start_index)
    IN  IF pos = -1 THEN ms
        ELSE
          LET after == pos + Len(item_lower)
              is_start_ok == pos = 0 \/ ~IsAlnum(query_lower[pos])
              is_end_ok == after = Len(query_lower) \/ ~IsAlnum(query_lower[after + 1])
              kept == /\ is_start_ok
                      /\ is_end_ok
                      /\ ~IsHardOverlapping(pos, Len(item_lower), ms)
              found == EntityMatch(type_name, item, pos, Len(item_lower), item)
          IN  ExactOccurrences(IF kept THEN Append(ms, found) ELSE ms,
                               query_lower, item, type_name, pos + 1)

\* search_exact(entity_set, type_name), the set visited in the given order
RECURSIVE SearchExact(_, _, _, _)
SearchExact(ms, query_lower, order, type_name) ==
    IF order = <<>> THEN ms
    ELSE
      LET item == Head(order)
          skipped == Len(item) < 3 \/ ~Contains(query_lower, StrLower(item))
      IN  SearchExact(IF skipped THEN ms
                      ELSE ExactOccurrences(ms, query_lower, item, type_name, 0),
                      query_lower, Tail(order), type_name)

\* the orders in which a set can be iterated
Orders(S) ==
    {o \in [1..Cardinality(S) -> S] : \A i, j \in 1..Cardinality(S) : o[i] = o[j] => i = j}

\* the keys of fuzzy_targets, in the order of the dict
FUZZY_TARGETS == <<"CATEGORIA", "ESPECIE", "CONCEPTO", "ACCION", "LABORATORIO", "DROGA">>

\* the loop over fuzzy_targets for one word, from the t-th target on
RECURSIVE FuzzyTypes(_, _, _, _, _)
FuzzyTypes(ms, lex, word, word_pos, t) ==
    IF t > Len(FUZZY_TARGETS) THEN ms
    ELSE
      LET type_name == FUZZY_TARGETS[t]
          candidates == GetCloseMatches(StrUpper(word), lex[type_name])
      IN  IF /\ candidates # <<>>
             /\ word_pos # -1
             /\ ~IsHardOverlapping(word_pos, Len(word), ms)
          THEN Append(ms, EntityMatch(type_name, candidates[1], word_pos,
                                      Len(word), candidates[1]))
          ELSE FuzzyTypes(ms, lex, word, word_pos, t + 1)

\* the body of the loop over query_words for one word
FuzzyWord(ms, query_lower, lex, word) ==
    LET word_pos == Find(query_lower, StrLower(word), 0) IN
    IF Len(word) < 4 THEN ms
    ELSE IF StrLower(word) \in IGNORED_TERMS THEN ms
    ELSE IF word_pos # -1 /\ IsHardOverlapping(word_pos, Len(word), ms) THEN ms
    ELSE FuzzyTypes(ms, lex, word, word_pos, 1)

RECURSIVE FuzzyWords(_, _, _, _)
FuzzyWords(ms, query_lower, lex, words) ==
    IF words = <<>> THEN ms
    ELSE FuzzyWords(FuzzyWord(ms, query_lower, lex, Head(words)),
                    query_lower, lex, Tail(words))

\* the body of the loop over self.productos for one product
ProductStep(ms, query_lower, query_words, prod) ==
    LET prod_lower == StrLower(prod)
        parts == SplitWords(prod_lower)
        root == IF Len(parts) > 1 /\ Len(parts[1]) < 4
                THEN parts[1] \o <<" ">> \o parts[2]
                ELSE parts[1]
        idx == Find(query_lower, root, 0)
        candidates == GetCloseMatches(StrUpper(root),
                                      {StrUpper(query_words[i]) : i \in 1..Len(query_words)})
        word_matched == StrLower(candidates[1])
        widx == Find(query_lower, word_matched, 0)
    IN  IF Contains(query_lower, prod_lower)
        THEN Append(ms, EntityMatch("PRODUCTO", prod, Find(query_lower, prod_lower, 0),
                                    Len(prod), prod))
        ELSE IF parts = <<>> THEN ms
        ELSE IF Len(root) < 3 \/ root \in IGNORED_TERMS THEN ms
        ELSE IF Contains(query_lower, root)
        THEN IF ~IsHardOverlapping(idx, Len(root), ms)
             THEN Append(ms, EntityMatch("PRODUCTO", prod, idx, Len(root), prod))
             ELSE ms
        ELSE IF candidates = <<>> THEN ms
        ELSE IF /\ Contains(query_lower, word_matched)
                /\ ~IsHardOverlapping(widx, Len(word_matched), ms)
        THEN Append(ms, EntityMatch("PRODUCTO", prod, widx, Len(word_matched), prod))
        ELSE ms

\* the sort key of the ranking: a precedes-or-equals b
KeyLeq(a, b) ==
    LET ka == <<MatchDiff(a), GetEntityTypePriority(a.entity_type), -a.length, a.position>>
        kb == <<MatchDiff(b), GetEntityTypePriority(b.entity_type), -b.length, b.position>>
    IN  \/ ka = kb
        \/ \E k \in 1..4 : (\A i \in 1..k - 1 : ka[i] = kb[i]) /\ ka[k] < kb[k]

\* list.sort(key=...): stable
RECURSIVE InsertSpan(_, _)
InsertSpan(sorted, m) ==
    IF sorted = <<>> THEN <<m>>
    ELSE IF KeyLeq(Head(sorted), m) THEN <<Head(sorted)>> \o InsertSpan(Tail(sorted), m)
    ELSE <<m>> \o sorted

RECURSIVE SortSpans(_)
SortSpans(ms) ==
    IF ms = <<>> THEN <<>>
    ELSE InsertSpan(SortSpans(SubSeq(ms, 1, Len(ms) - 1)), ms[Len(ms)])

\* the deduplication loop without the seen_entities test
Dedup_KeepAll(ms) == ms

\* the deduplication loop: the first span of every (entity_type, entity_value)
Dedup(ms) ==
    LET first(i) == \A j \in 1..i - 1 :
                        <<ms[j].entity_type, ms[j].entity_value>>
                            # <<ms[i].entity_type, ms[i].entity_value>>
        keep == {i \in 1..Len(ms) : first(i)}
        RECURSIVE pick(_)
        pick(i) == IF i > Len(ms) THEN <<>>
                   ELSE (IF i \in keep THEN <<ms[i]>> ELSE <<>>) \o pick(i + 1)
    IN  pick(1)

(***************************************************************************)
(* Inputs of one _find_all_entities call.                                  *)
(***************************************************************************)
\* the words a query is made of
QueryWordPool ==
    { <<"g","a","t","o">>, <<"g","a","t","o","s">>, <<"p","o","w","e","r">>,
      <<"p","o","w","e","r","s">>, <<"g","o","l","d">> }

\* query_clean: lower case, single blanks (_normalize_text, _clean_query)
NERQueries ==
    { JoinWords(ws) : ws \in UNION { [1..n -> QueryWordPool] : n \in 1..MaxQueryWords } }

\* Values of the vocabularies within reach of these words.  ESPECIE always
\* holds GATO and GATOS (_enrich_species_vocabulary); the other values
\* come from the CSV files: a laboratory POWER, a category token GATO, and
\* the products POWER, POWER GOLD and POWER ULTRA.
ESPECIES_ENRICHED == { <<"G","A","T","O">>, <<"G","A","T","O","S">> }
LABORATORIOS_CSV == { <<"P","O","W","E","R">> }
CATEGORIAS_CSV == { <<"G","A","T","O">> }
\* the category POWER GOLD as _load_known_entities stores it with
\* tokenize=True: the value and each of its words longer than 3
CATEGORIAS_TOKENIZED ==
    { <<"P","O","W","E","R"," ","G","O","L","D">>, <<"P","O","W","E","R">>,
      <<"G","O","L","D">> }
PRODUCTOS_CSV ==
    { <<"P","O","W","E","R">>,
      <<"P","O","W","E","R"," ","G","O","L","D">>,
      <<"P","O","W","E","R"," ","U","L","T","R","A">> }

Lexicons ==
    { [LABORATORIO |-> labs, DROGA |-> {}, ACCION |-> {}, CATEGORIA |-> cats,
       CONCEPTO |-> {}, ESPECIE |-> ESPECIES_ENRICHED, PRODUCTO |-> prods] :
         labs \in SUBSET LABORATORIOS_CSV,
         cats \in (SUBSET CATEGORIAS_CSV) \cup {CATEGORIAS_TOKENIZED},
         prods \in {p \in SUBSET PRODUCTOS_CSV : Cardinality(p) <= MaxVocab} }

(***************************************************************************)
(* SpecNER: one _find_all_entities(query_clean, query_norm) call.          *)
(***************************************************************************)
InitNER ==
    /\ n_pc = "exact"
    /\ query_clean \in NERQueries
    /\ lexicon \in Lexicons
    /\ todo = {}
    /\ matches = <<>>
    /\ final_matches = <<>>

\* ESTRATEGIA 1: the six search_exact calls, each set in some order
N_Exact ==
    /\ n_pc = "exact"
    /\ \E ol \in Orders(lexicon.LABORATORIO), od \in Orders(lexicon.DROGA),
          oa \in Orders(lexicon.ACCION), oc \in Orders(lexicon.CATEGORIA),
          ok \in Orders(lexicon.CONCEPTO), oe \in Orders(lexicon.ESPECIE) :
          LET q == StrLower(query_clean)
              m1 == SearchExact(matches, q, ol, "LABORATORIO")
              m2 == SearchExact(m1, q, od, "DROGA")
              m3 == SearchExact(m2, q, oa, "ACCION")
              m4 == SearchExact(m3, q, oc, "CATEGORIA")
              m5 == SearchExact(m4, q, ok, "CONCEPTO")
          IN  matches' = SearchExact(m5, q, oe, "ESPECIE")
    /\ n_pc' = "fuzzy"
    /\ UNCHANGED <<query_clean, lexicon, todo, final_matches>>
    /\ UNCHANGED <<hm_vars, s_vars, fn_vars>>

\* ESTRATEGIA 2: the loop over query_words
N_Fuzzy ==
    /\ n_pc = "fuzzy"
    /\ matches' = FuzzyWords(matches, StrLower(query_clean), lexicon,
                             SplitWords(query_clean))
    /\ todo' = lexicon.PRODUCTO
    /\ n_pc' = "products"
    /\ UNCHANGED <<query_clean, lexicon, final_matches>>
    /\ UNCHANGED <<hm_vars, s_vars, fn_vars>>

\* ESTRATEGIA 3: one iteration of "for prod in self.productos"
N_Product ==
    /\ n_pc = "products"
    /\ \E prod \in todo :
          /\ matches' = ProductStep(matches, StrLower(query_clean),
                                    SplitWords(query_clean), prod)
          /\ todo' = todo \ {prod}
    /\ UNCHANGED <<n_pc, query_clean, lexicon, final_matches>>
    /\ UNCHANGED <<hm_vars, s_vars, fn_vars>>

\* RANKING and DEDUPLICACION, then return final_matches
N_Rank ==
    /\ n_pc = "products"
    /\ todo = {}
    /\ matches' = SortSpans(matches)
    /\ final_matches' = Dedup(SortSpans(matches))
    /\ n_pc' = "done"
    /\ UNCHANGED <<query_clean, lexicon, todo>>
    /\ UNCHANGED <<hm_vars, s_vars, fn_vars>>

InitNERSpec == InitNER /\ IdleHM /\ IdleSearch /\ IdleFn

NextNER ==
    \/ N_Exact
    \/ N_Fuzzy
    \/ N_Product
    \/ N_Rank

SpecNER == InitNERSpec /\ [][NextNER]_vars

(***************************************************************************)
(* Properties of _find_all_entities                                        *)
(***************************************************************************)
\* the (entity_type, entity_value) of a span
SpanKey(m) == <<m.entity_type, m.entity_value>>

\* the text of the query a span covers
SpanText(m) == Slice(StrLower(query_clean), m.position, m.length)

\* The span is an exact match: the text it covers is its value.  Any other
\* span (a corrected word, the root of a product) is of lower confidence.
IsExactSpan(m) == SpanText(m) = StrLower(m.entity_value)

\* the ranges [position, position + length) intersect
RangesIntersect(p1, l1, p2, l2) == ~(p1 + l1 <= p2 \/ p1 >= p2 + l2)

\* the ranges of two spans intersect without being the same range
PartialOverlap(a, b) ==
    /\ RangesIntersect(a.position, a.length, b.position, b.length)
    /\ ~(a.position = b.position /\ a.length = b.length)

\* the characters around a span, if any, are not alphanumeric
AtWordBoundaries(m) ==
    LET q == StrLower(query_clean)
        after == m.position + m.length
    IN  /\ m.position = 0 \/ ~IsAlnum(q[m.position])
        /\ after = Len(q) \/ ~IsAlnum(q[after + 1])

\* C6: the returned list holds no two spans with the same
\* (entity_type, entity_value).
C6_DedupInvariant ==
    n_pc = "done" =>
        \A i, j \in 1..Len(final_matches) :
            SpanKey(final_matches[i]) = SpanKey(final_matches[j]) => i = j

\* a call whose ranked list held the same (type, value) twice
C6_Witness ==
    /\ n_pc = "done"
    /\ \E i, j \in 1..Len(matches) :
           i # j /\ SpanKey(matches[i]) = SpanKey(matches[j])
    /\ Len(final_matches) < Len(matches)
    /\ final_matches # <<>>

\* C7: every exact-match span of the returned list, of whatever entity
\* type, PRODUCTO included, lies between non-alphanumeric boundaries.
C7_BoundaryInvariant ==
    n_pc = "done" =>
        \A i \in 1..Len(final_matches) :
            IsExactSpan(final_matches[i]) => AtWordBoundaries(final_matches[i])

\* C8: the returned list never holds a lower-confidence span together with
\* an exact span whose range partially overlaps it.
C8_PartialOverlapInvariant ==
    n_pc = "done" =>
        \A i, j \in 1..Len(final_matches) :
            ~(/\ ~IsExactSpan(final_matches[i])
              /\ IsExactSpan(final_matches[j])
              /\ PartialOverlap(final_matches[i], final_matches[j]))

\* the entity types search_exact is called for
EXACT_TYPES == {"LABORATORIO", "DROGA", "ACCION", "CATEGORIA", "CONCEPTO", "ESPECIE"}

\* the span search_exact makes for value v of type t at position p
ExactSpanOf(t, v, p) == EntityMatch(t, v, p, Len(v), v)

InList(l, m) == \E i \in 1..Len(l) : l[i] = m

\* C9: a candidate range is reported as overlapping only because of a
\* span on a different, intersecting range; a value held by two
\* vocabularies is recorded at a position for both types or for neither;
\* and every (type, value) found keeps a span in the returned list, so two
\* spans of different type or value on one range are both returned.
C9_MultiLabel ==
    /\ \A p \in 0..Len(query_clean), l \in 1..Len(query_clean) :
           IsHardOverlapping(p, l, matches) =>
               \E i \in 1..Len(matches) :
                   /\ RangesIntersect(p, l, matches[i].position, matches[i].length)
                   /\ ~(matches[i].position = p /\ matches[i].length = l)
    /\ n_pc # "exact" =>
           \A t1, t2 \in EXACT_TYPES : \A v \in lexicon[t1] \cap lexicon[t2] :
               \A p \in 0..Len(query_clean) :
                   InList(matches, ExactSpanOf(t1, v, p))
                       <=> InList(matches, ExactSpanOf(t2, v, p))
    /\ n_pc = "done" =>
           \A i \in 1..Len(matches) :
               \E j \in 1..Len(final_matches) :
                   SpanKey(final_matches[j]) = SpanKey(matches[i])

\* a call that returned an exact span and a lower-confidence span of
\* another type on the same range, and two exact spans on one range
C9_Witness ==
    /\ n_pc = "done"
    /\ \E i, j \in 1..Len(final_matches) :
           /\ final_matches[i].position = final_matches[j].position
           /\ final_matches[i].length = final_matches[j].length
           /\ final_matches[i].entity_type # final_matches[j].entity_type
           /\ IsExactSpan(final_matches[i])
           /\ ~IsExactSpan(final_matches[j])
    /\ \E i, j \in 1..Len(final_matches) :
           /\ final_matches[i].position = final_matches[j].position
           /\ final_matches[i].length = final_matches[j].length
           /\ final_matches[i].entity_type # final_matches[j].entity_type
           /\ final_matches[i].entity_type \in EXACT_TYPES
           /\ final_matches[j].entity_type \in EXACT_TYPES
           /\ IsExactSpan(final_matches[i])
           /\ IsExactSpan(final_matches[j])

\* C10: in the returned list no lower-confidence span comes before an exact
\* span, and exact spans come by type priority, then by position.
C10_RankOrder ==
    n_pc = "done" =>
        \A i, j \in 1..Len(final_matches) :
            i < j =>
              LET a == final_matches[i]
                  b == final_matches[j]
                  pa == GetEntityTypePriority(a.entity_type)
                  pb == GetEntityTypePriority(b.entity_type)
              IN  /\ IsExactSpan(b) => IsExactSpan(a)
                  /\ IsExactSpan(a) /\ IsExactSpan(b) =>
                        pa < pb \/ (pa = pb /\ a.position <= b.position)

(***************************************************************************)
(* Properties of the validated filter set                                  *)
(***************************************************************************)
\* optimize returned the validated draft of the oracle
ReturnedValidated ==
    /\ hm_pc \in {"search", "done"}
    /\ Truthy(llm_response)
    /\ optimized_data.t = "obj"
    /\ optimized_data.d["search_filters"].t = "obj"

\* the search_filters of the draft _call_llm returned, and of what
\* optimize returned
DraftedFilters == llm_response.d["search_filters"].d
ReturnedFilters == optimized_data.d["search_filters"].d

\* the value is a string that occurs in the query, whatever the case
InQueryText(v) == v.t = "str" /\ InText(Lower(v.s), Lower(user_text))

\* C11: a species filter that is not null after validation occurs,
\* case-insensitively, in the text of the query.
C11_SpeciesInQuery ==
    ReturnedValidated =>
        (Get(ReturnedFilters, "species") # JNull
            => InQueryText(ReturnedFilters["species"]))

\* C12: a presentation filter that is not null after validation occurs,
\* case-insensitively, in the text of the query, also when the repair
\* steps moved it there from species or from drug.
C12_PresentationInQuery ==
    ReturnedValidated =>
        (Get(ReturnedFilters, "presentation") # JNull
            => InQueryText(ReturnedFilters["presentation"]))

\* the species of the draft, a list collapsed to its first element
DraftedSpecies ==
    LET given == Get(DraftedFilters, "species") IN
    IF given.t = "list" /\ Truthy(given) THEN given.l[1] ELSE given

\* the draft of the oracle gave a presentation term as the species
SpeciesIsPresentationTerm ==
    /\ ReturnedValidated
    /\ llm_response.d["search_filters"].t = "obj"
    /\ Truthy(DraftedSpecies)
    /\ Lower(StrOf(DraftedSpecies)) \in PRESENTATION_KEYWORDS

\* C13 as stated: whenever the drafted species is a presentation term, the
\* validated filter set has species null and presentation equal to the term.
C13_SpeciesMovedAlways ==
    SpeciesIsPresentationTerm =>
        /\ Get(ReturnedFilters, "species") = JNull
        /\ Get(ReturnedFilters, "presentation") = DraftedSpecies

\* C13: whenever the drafted species is a presentation term, the validated
\* filter set has species null; its presentation is the term if the draft
\* gave no presentation and the term occurs in the query.
C13_SpeciesMoved ==
    SpeciesIsPresentationTerm =>
        /\ Get(ReturnedFilters, "species") = JNull
        /\ (~Truthy(Get(DraftedFilters, "presentation")) /\ InQueryText(DraftedSpecies))
              => Get(ReturnedFilters, "presentation") = DraftedSpecies

\* the species 'gotas' of a draft without presentation, for a query that
\* holds the word, was moved to presentation
C13_Witness ==
    /\ SpeciesIsPresentationTerm
    /\ ~Truthy(Get(DraftedFilters, "presentation"))
    /\ InQueryText(DraftedSpecies)
    /\ ReturnedFilters["presentation"] = JStr("gotas")
    /\ ReturnedFilters["species"] = JNull

\* an exclusion that is no hallucination pattern and has 3 characters or more
GenuineExclusion(b) ==
    /\ Lower(Strip(StrOf(b))) \notin HALLUCINATION_PATTERNS
    /\ Len(Strip(StrOf(b))) >= 3

\* C14: after validation exclude_brands holds no hallucination pattern and
\* no entry of fewer than 3 characters, and it holds every other entry of
\* the draft, in the order of the draft.
C14_ExcludeBrandsFiltered ==
    (ReturnedValidated /\ Truthy(Get(DraftedFilters, "exclude_brands"))) =>
        LET drafted == DraftedFilters["exclude_brands"].l
            returned == Get(ReturnedFilters, "exclude_brands")
        IN  /\ returned.t = "list"
            /\ \A i \in 1..Len(returned.l) : GenuineExclusion(returned.l[i])
            /\ returned.l = SelectSeq(drafted, GenuineExclusion)

\* a draft of five exclusions of which the second, third and fourth were
\* dropped
C14_Witness ==
    /\ ReturnedValidated
    /\ Truthy(Get(DraftedFilters, "exclude_brands"))
    /\ Len(DraftedFilters["exclude_brands"].l) = 5
    /\ ReturnedFilters["exclude_brands"] = JList(<<JStr("Nexgard"), JStr("Bravecto")>>)

\* C15: after validation the brand filter is null or a string of at least
\* 3 characters that is no placeholder value, also when it is what remains
\* of a brand after the label prefix was stripped.
C15_BrandValid ==
    ReturnedValidated =>
        LET brand == Get(ReturnedFilters, "brand") IN
        brand # JNull =>
            /\ brand.t = "str"
            /\ Len(Strip(brand.s)) >= 3
            /\ Lower(Strip(brand.s)) \notin INVALID_BRANDS

\* the filter set optimize returned, validated draft or fallback
OptimizeReturned ==
    /\ hm_pc \in {"search", "done"}
    /\ optimized_data.t = "obj"
    /\ optimized_data.d["search_filters"].t = "obj"

\* C16: in every filter set optimize returns, the brand filter is no entry
\* of exclude_brands.
C16_BrandNotExcluded ==
    OptimizeReturned =>
        LET brand == Get(ReturnedFilters, "brand")
            excluded == Get(ReturnedFilters, "exclude_brands")
        IN  (Truthy(brand) /\ excluded.t = "list") =>
                \A i \in 1..Len(excluded.l) : excluded.l[i] # brand

\* C17: in every filter set optimize returns and in every one handed to
\* search_with_context, weight_min is at most weight_max when both are
\* present.
C17_WeightRangeOrdered ==
    LET ordered(f) ==
            (Get(f, "weight_min").t = "num" /\ Get(f, "weight_max").t = "num")
                => f["weight_min"].n <= f["weight_max"].n
    IN  /\ OptimizeReturned => ordered(ReturnedFilters)
        /\ (search_arg # NotCalled /\ search_arg.d["search_filters"].t = "obj")
              => ordered(search_arg.d["search_filters"].d)

(***************************************************************************)
(* Properties of the threshold, diversification and top-K stages           *)
(***************************************************************************)
\* the candidates of scored that reach the threshold of the filter set
Reaching == {i \in 1..Len(scored) : scored[i].total_score >= AdaptiveThreshold(filters)}

\* the ranks (entity_id) of the candidates of a list
IdsOf(l) == {l[i].entity_id : i \in 1..Len(l)}

\* C18: when fewer than 3 of at least 3 candidates reach the threshold, the
\* threshold stage returns 3 candidates of the highest total_score, and
\* every candidate that reached the threshold is among them.
C18_FallbackKeepsBest ==
    (s_pc = "diversify" /\ Len(scored) >= 3 /\ Cardinality(Reaching) < 3) =>
        /\ Len(filtered) = 3
        /\ \A i \in Reaching : scored[i].entity_id \in IdsOf(filtered)
        /\ \A i, j \in 1..Len(scored) :
               (scored[i].entity_id \in IdsOf(filtered)
                  /\ scored[j].entity_id \notin IdsOf(filtered))
               => scored[i].total_score >= scored[j].total_score

\* what the threshold stage returned (filtered is overwritten afterwards)
Survivors == ApplyAdaptiveThreshold(scored, filters)

PromoCount(l) == Cardinality({i \in 1..Len(l) : IsPromo(l[i])})
OrdinaryCount(l) == Len(l) - PromoCount(l)

PromotionsRequested == Truthy(Get(filters, "is_offer")) \/ Truthy(Get(filters, "is_transfer"))

\* at least 2 ordinary and 1 promotional candidate survived the threshold
Diversifiable == OrdinaryCount(Survivors) >= 2 /\ PromoCount(Survivors) >= 1

\* K - floor(0.7 K), K the effective top-K
PromoCap == EffectiveTopK - ((EffectiveTopK * 7) \div 10)

\* C19: when no promotions were requested and at least 2 ordinary and 1
\* promotional candidate survive the threshold, the final output holds at
\* most K - floor(0.7 K) promotional candidates, K the effective top-K.
\* When promotions were requested the output is the K best survivors, and
\* when fewer than 2 ordinary or no promotional survivors exist it is the
\* first K survivors, ranked: no cap is applied.
C19_DiversificationBound ==
    s_pc = "done" =>
        /\ (~PromotionsRequested /\ Diversifiable) => PromoCount(results) <= PromoCap
        /\ PromotionsRequested => results = Take(SortByScoreDesc(Survivors), EffectiveTopK)
        /\ (~PromotionsRequested /\ ~Diversifiable) =>
               results = SortByScoreDesc(Take(Survivors, EffectiveTopK))

\* the cap binds: the K best survivors hold more promotional candidates
\* than the cap, and the output holds exactly the cap
C19_Witness ==
    /\ s_pc = "done" /\ ~PromotionsRequested /\ Diversifiable
    /\ PromoCount(Take(SortByScoreDesc(Survivors), EffectiveTopK)) > PromoCap
    /\ PromoCount(results) = PromoCap

\* fewer than 2 ordinary survivors: the output holds more promotional
\* candidates than the cap
C19_UncappedOutput ==
    s_pc = "done" /\ ~PromotionsRequested /\ ~Diversifiable /\ PromoCount(results) > PromoCap

\* promotions requested: the output holds more of them than the cap
C19_RequestedOutput ==
    s_pc = "done" /\ PromotionsRequested /\ PromoCount(results) > PromoCap

\* the filter set holds a specific constraint under key k: a non-zero
\* number, a non-empty string or a non-empty list
Constrains(k) ==
    LET v == Get(filters, k) IN
      \/ v.t = "num" /\ v.n # 0
      \/ v.t = "str" /\ v.s # ""
      \/ v.t = "list" /\ v.l # <<>>

HasSpecificConstraint ==
    \/ Constrains("weight_min") \/ Constrains("weight_max")
    \/ Constrains("brand") \/ Constrains("drug")
    \/ Constrains("exclude_brands")
    \/ Constrains("presentation") \/ Constrains("species")

\* C20: the effective top-K is min(2 K, 15) when the filter set has a
\* weight_min or weight_max bound, a brand, a drug, a non-empty
\* exclude_brands, a presentation or a species, and the requested K (at
\* least 1) otherwise.  It is the LIMIT base of the retrieval and the
\* length bound of the output.
C20_AdaptiveTopK ==
    /\ top_k >= 1
    /\ HasSpecificConstraint =>
          EffectiveTopK = (IF 2 * top_k < 15 THEN 2 * top_k ELSE 15)
    /\ ~HasSpecificConstraint => EffectiveTopK = top_k
    /\ s_pc = "done" => Len(results) <= EffectiveTopK

\* the cap of 15 applies: a SEARCH request (K = 8) with a specific filter
\* has been answered
C20_Witness ==
    /\ s_pc = "done" /\ HasSpecificConstraint
    /\ 2 * top_k > 15 /\ EffectiveTopK = 15
    /\ results # <<>>

\* a request below the cap is doubled
C20_Doubled ==
    s_pc = "done" /\ HasSpecificConstraint /\ EffectiveTopK = 2 * top_k /\ results # <<>>

\* a filter set with none of the seven constraints keeps the requested K
C20_Unchanged ==
    s_pc = "done" /\ ~HasSpecificConstraint /\ "is_offer" \in DOMAIN filters
        /\ EffectiveTopK = top_k /\ results # <<>>

(***************************************************************************)
(* SpecWeightFit: one _score_weight_fit(product_weight_range, target_min,  *)
(* target_max) call.                                                       *)
(***************************************************************************)
\* the weights (kg) the ranges are made of; 999 is the default upper bound
WeightPoints == {0, 4, 5, 10, 12, 15, 18, 20, 21, 22, 24, 25, 30, 40, 999}

\* the ranges [lo, hi] over these weights
WeightRanges == {<<lo, hi>> : lo \in WeightPoints, hi \in WeightPoints} 

ProperRanges == {r \in WeightRanges : r[1] <= r[2]}

InitWeightFit ==
    /\ wf_pc = "call"
    /\ wf_product \in ProperRanges
    /\ wf_target \in ProperRanges
    /\ wf_score = 0

\* weight_score = self._score_weight_fit(weight_range, target_min, target_max)
W_Score ==
    /\ wf_pc = "call"
    /\ wf_score' = ScoreWeightFit(wf_product, wf_target[1], wf_target[2])
    /\ wf_pc' = "done"
    /\ UNCHANGED <<wf_product, wf_target>>
    /\ UNCHANGED <<hm_vars, s_vars, n_vars, fe_vars, c_vars, we_vars>>

InitWeightFitSpec ==
    InitWeightFit /\ IdleHM /\ IdleSearch /\ IdleNER /\ IdleFilterEntities /\ IdleConcurrent
        /\ IdleWeightExtract

NextWeightFit == W_Score

SpecWeightFit == InitWeightFitSpec /\ [][NextWeightFit]_vars

(***************************************************************************)
(* Properties of _score_weight_fit                                         *)
(***************************************************************************)
\* the candidate range p lies fully inside the requested range t
Inside(p, t) == p[1] >= t[1] /\ p[2] <= t[2]

\* the ranges share no weight
Disjoint(p, t) == p[2] < t[1] \/ p[1] > t[2]

\* the ranges overlap only partly
PartlyOverlapping(p, t) == ~Inside(p, t) /\ ~Disjoint(p, t)

\* the length of the part of t that p covers
OverlapOf(p, t) ==
    (IF p[2] <= t[2] THEN p[2] ELSE t[2]) - (IF p[1] >= t[1] THEN p[1] ELSE t[1])

\* the distance between two disjoint ranges
GapOf(p, t) == IF p[2] < t[1] THEN t[1] - p[2] ELSE p[1] - t[2]

SpanOf(t) == t[2] - t[1]

\* C21: the weight-fit sub-score is 4.0 for a candidate range inside the
\* requested one; between 2.0 and 3.5, and non-decreasing in the overlap
\* fraction of the requested span, for ranges that overlap only partly;
\* and for disjoint ranges 2.0 if gap / span < 0.2, 1.0 if < 0.5, else 0.
C21_WeightFit ==
    wf_pc = "done" =>
        /\ Inside(wf_product, wf_target) => wf_score = 400
        /\ PartlyOverlapping(wf_product, wf_target) =>
              /\ wf_score >= 200 /\ wf_score <= 350
              /\ \A p \in ProperRanges :
                    (PartlyOverlapping(p, wf_target)
                       /\ OverlapOf(p, wf_target) >= OverlapOf(wf_product, wf_target))
                    => ScoreWeightFit(p, wf_target[1], wf_target[2]) >= wf_score
        /\ Disjoint(wf_product, wf_target) =>
              wf_score =
                 IF SpanOf(wf_target) > 0
                      /\ 10 * GapOf(wf_product, wf_target) < 2 * SpanOf(wf_target)
                 THEN 200
                 ELSE IF SpanOf(wf_target) > 0
                      /\ 10 * GapOf(wf_product, wf_target) < 5 * SpanOf(wf_target)
                 THEN 100
                 ELSE 0

\* requested [10,20]: candidate [5,12] overlaps it partly and scores 2.0
C21_Witness ==
    /\ wf_pc = "done"
    /\ wf_target = <<10, 20>> /\ wf_product = <<5, 12>>
    /\ wf_score = 200

\* requested [10,20]: candidate [12,18] scores 4.0
C21_InsideExample ==
    wf_pc = "done" /\ wf_target = <<10, 20>> /\ wf_product = <<12, 18>> /\ wf_score = 400

\* requested [10,20]: candidate [30,40] scores 0
C21_FarExample ==
    wf_pc = "done" /\ wf_target = <<10, 20>> /\ wf_product = <<30, 40>> /\ wf_score = 0

\* requested [10,20]: candidates [21,22] and [24,25] are near misses
C21_NearExample ==
    /\ wf_pc = "done" /\ wf_target = <<10, 20>>
    /\ \/ wf_product = <<21, 22>> /\ wf_score = 200
       \/ wf_product = <<24, 25>> /\ wf_score = 100

\* a partial overlap above 0.7 of the requested span scores 3.5
C21_WideOverlap ==
    wf_pc = "done" /\ PartlyOverlapping(wf_product, wf_target) /\ wf_score = 350

(***************************************************************************)
(* Properties of the scoring stage                                         *)
(***************************************************************************)
\* the weight_range metadata of a hit is missing or malformed: it is not
\* exactly two numbers separated by one '-'
MalformedWeightRange(meta) ==
    LET w == Get(meta, "weight_range") IN
    \/ w = JNull
    \/ LET parts == SplitDash(StrOf(w)) IN
       Len(parts) # 2 \/ ~parts[1].num \/ ~parts[2].num

WeightRequested == Truthy(Get(filters, "weight_min")) \/ Truthy(Get(filters, "weight_max"))

\* C22: a candidate whose weight_range is missing or malformed gets the
\* weight-fit sub-score 0 and is scored like any other; the scoring stage
\* gives one scored candidate per raw hit, in order, and does not raise
\* because of that attribute (it never raises when no hit has a
\* well-formed weight_range).
C22_MalformedWeightIsolated ==
    /\ s_pc \in {"threshold", "diversify", "rank", "done"} =>
          /\ Len(scored) = Len(raw_results)
          /\ \A i \in 1..Len(raw_results) :
                /\ scored[i].entity_id = raw_results[i].entity_id
                /\ scored[i].metadata = raw_results[i].metadata
                /\ MalformedWeightRange(raw_results[i].metadata) => scored[i].weight_fit = 0
    /\ s_pc = "raised" =>
          \E i \in 1..Len(raw_results) : ~MalformedWeightRange(raw_results[i].metadata)

\* a weight range was requested; a hit with a malformed weight_range and a
\* hit without one were scored next to a hit whose range counted
C22_Witness ==
    /\ s_pc = "threshold" /\ WeightRequested
    /\ \E i, j, k \in 1..Len(scored) :
          /\ Get(scored[i].metadata, "weight_range") = JStr("4-10kg")
          /\ "weight_range" \notin DOMAIN scored[j].metadata
          /\ scored[k].weight_fit > 0

(***************************************************************************)
(* Properties of the oracle call and of the stages of handle_message       *)
(***************************************************************************)
\* C23: while one query is processed the oracle is attempted at most once,
\* and a failed attempt leads to the fallback filter set without a second
\* attempt and without waiting.
C23_NoRetryNoBackoff ==
    hm_pc \in {"search", "done", "raised"} =>
        /\ llm_attempts <= 1
        /\ llm_waits = 0

(***************************************************************************)
(* QueryOptimizer._filter_noisy_entities (rag_domain/optimizer.py)         *)
(***************************************************************************)
\* optimizer.py STOP_WORDS
STOP_WORDS ==
    { <<"p","e","r","o">>, <<"a","u","n","q","u","e">>, <<"s","i","n">>,
      <<"e","m","b","a","r","g","o">>, <<"c","o","n">>, <<"q","u","e">>,
      <<"p","a","r","a">>, <<"d","e">>, <<"e","n">>, <<"y">>, <<"o">>,
      <<"a">>, <<"l","a">>, <<"e","l">>, <<"l","o","s">>, <<"l","a","s">>,
      <<"u","n">>, <<"u","n","a">>, <<"u","n","o","s">>, <<"u","n","a","s">>,
      <<"a","l">>, <<"d","e","l">> }

\* optimizer.py PRESENTATION_KEYWORDS, as sequences of characters
PRESENTATION_KEYWORD_TEXTS ==
    { <<"g","o","t","a","s">>, <<"p","i","p","e","t","a">>,
      <<"p","i","p","e","t","a","s">>,
      <<"c","o","m","p","r","i","m","i","d","o","s">>,
      <<"t","a","b","l","e","t","a","s">>,
      <<"i","n","y","e","c","t","a","b","l","e">>,
      <<"s","h","a","m","p","o","o">>, <<"s","p","r","a","y">>,
      <<"c","o","l","l","a","r">>, <<"d","i","f","u","s","o","r">>,
      <<"c","r","e","m","a">>, <<"g","e","l">>, <<"p","o","m","a","d","a">>,
      <<"s","o","l","u","c","i","o","n">>,
      <<"s","u","s","p","e","n","s","i","o","n">> }

\* str.strip() of a sequence of characters
RECURSIVE StrStrip(_)
StrStrip(s) ==
    IF s = <<>> THEN s
    ELSE IF Head(s) = " " THEN StrStrip(Tail(s))
    ELSE IF s[Len(s)] = " " THEN StrStrip(SubSeq(s, 1, Len(s) - 1))
    ELSE s

\* entity.get('entity_value', '').lower().strip()
EntityValueOf(entity) == StrStrip(StrLower(entity.entity_value))

\* entity.get('score', 0.0), in hundredths
EntityScoreOf(entity) == IF "score" \in DOMAIN entity THEN entity.score ELSE 0

\* the loop of _filter_noisy_entities over the entities left
RECURSIVE FilterLoop(_, _, _, _, _)
FilterLoop(es, query_length, out, seen_values, product_count) ==
    IF es = <<>> THEN out
    ELSE
      LET entity == Head(es)
          entity_value == EntityValueOf(entity)
          entity_score == EntityScoreOf(entity)
          \* REGLA 2: a presentation detected as a species becomes a concept
          entity_type == IF /\ entity.entity_type = "ESPECIE"
                            /\ entity_value \in PRESENTATION_KEYWORD_TEXTS
                         THEN "CONCEPTO" ELSE entity.entity_type
          count == IF entity_type = "PRODUCTO" THEN product_count + 1 ELSE product_count
      IN  IF entity_value \in STOP_WORDS                      \* REGLA 1
          THEN FilterLoop(Tail(es), query_length, out, seen_values, product_count)
          ELSE IF /\ entity_type = "PRODUCTO"                 \* REGLA 3
                  /\ \/ query_length < 5 /\ count > 5
                     \/ query_length >= 5 /\ count > 20
          THEN FilterLoop(Tail(es), query_length, out, seen_values, count)
          ELSE IF entity_value \in seen_values                \* REGLA 4
          THEN FilterLoop(Tail(es), query_length, out, seen_values, count)
          ELSE IF entity_score < 50                           \* REGLA 5
          THEN FilterLoop(Tail(es), query_length, out,
                          seen_values \cup {entity_value}, count)
          ELSE FilterLoop(Tail(es), query_length,
                          Append(out, [entity EXCEPT !.entity_type = entity_type]),
                          seen_values \cup {entity_value}, count)

\* _filter_noisy_entities(entities, query)
FilterNoisyEntities(entities, query) ==
    FilterLoop(entities, Len(SplitWords(query)), <<>>, {}, 0)

(***************************************************************************)
(* SpecFilterEntities: one _filter_noisy_entities(entities, query) call.   *)
(***************************************************************************)
MaxEntities == 3      \* spans in classification.all_entities

\* Spans as _find_all_entities builds them (EntityMatch has no score
\* field): exact matches, a corrected word and the root of a product.
ExtractorSpans ==
    { EntityMatch("ESPECIE", <<"G","A","T","O">>, 0, 4, <<"G","A","T","O">>),
      EntityMatch("CATEGORIA", <<"G","A","T","O">>, 0, 4, <<"G","A","T","O">>),
      EntityMatch("LABORATORIO", <<"P","O","W","E","R">>, 0, 5, <<"P","O","W","E","R">>),
      EntityMatch("PRODUCTO", <<"P","O","W","E","R"," ","G","O","L","D">>, 0, 10,
                  <<"P","O","W","E","R"," ","G","O","L","D">>),
      EntityMatch("ESPECIE", <<"P","I","P","E","T","A">>, 0, 6, <<"P","I","P","E","T","A">>),
      EntityMatch("CONCEPTO", <<"P","E","R","O">>, 0, 4, <<"P","E","R","O">>),
      EntityMatch("ESPECIE", <<"G","A","T","O","S">>, 0, 4, <<"G","A","T","O","S">>),
      EntityMatch("PRODUCTO", <<"P","O","W","E","R"," ","U","L","T","R","A">>, 0, 5,
                  <<"P","O","W","E","R"," ","U","L","T","R","A">>) }

\* Entities given as dicts that carry a score (hundredths)
ScoredDicts ==
    { [entity_type |-> "ESPECIE", entity_value |-> <<"p","i","p","e","t","a">>, score |-> 50],
      [entity_type |-> "DROGA", entity_value |-> <<"G","O","L","D">>, score |-> 49] }

\* six products of distinct values, as dicts with a score or as spans
SixProducts(with_score) ==
    LET names == << <<"P","O","W","E","R">>, <<"P","O","W","E","R"," ","G","O","L","D">>,
                    <<"P","O","W","E","R"," ","U","L","T","R","A">>, <<"G","O","L","D">>,
                    <<"U","L","T","R","A">>, <<"G","A","T","O">> >>
    IN  [i \in 1..6 |->
           IF with_score
           THEN [entity_type |-> "PRODUCTO", entity_value |-> names[i], score |-> 100]
           ELSE EntityMatch("PRODUCTO", names[i], 0, Len(names[i]), names[i])]

EntityLists ==
    UNION { [1..n -> ExtractorSpans \cup ScoredDicts] : n \in 0..MaxEntities }
    \cup { SixProducts(TRUE), SixProducts(FALSE) }

FilterQueries == { <<"g","a","t","o">>, <<"p","o","w","e","r"," ","g","o","l","d">> }

InitFilterEntities ==
    /\ fe_pc = "call"
    /\ fe_entities \in EntityLists
    /\ fe_query \in FilterQueries
    /\ fe_filtered = <<>>

\* filtered_entities = self._filter_noisy_entities(classification.all_entities, query)
FE_Filter ==
    /\ fe_pc = "call"
    /\ fe_filtered' = FilterNoisyEntities(fe_entities, fe_query)
    /\ fe_pc' = "done"
    /\ UNCHANGED <<fe_entities, fe_query>>
    /\ UNCHANGED <<hm_vars, s_vars, n_vars, wf_vars, c_vars, we_vars>>

InitFilterEntitiesSpec ==
    InitFilterEntities /\ IdleHM /\ IdleSearch /\ IdleNER /\ IdleWeightFit /\ IdleConcurrent
        /\ IdleWeightExtract

NextFilterEntities == FE_Filter

SpecFilterEntities == InitFilterEntitiesSpec /\ [][NextFilterEntities]_vars

(***************************************************************************)
(* Properties of _filter_noisy_entities                                    *)
(***************************************************************************)
\* The match score of an entity: the score it carries; a span of the
\* extractor carries none, and an exact match (the span has the length of
\* its value) is a match of score 1.0.
MatchScore(e) ==
    IF "score" \in DOMAIN e THEN e.score
    ELSE IF e.length = Len(e.entity_value) THEN 100
    ELSE 0

\* the entities before the i-th that are products and no stop words
ProductsUpTo(i) ==
    Cardinality({j \in 1..i : /\ fe_entities[j].entity_type = "PRODUCTO"
                              /\ EntityValueOf(fe_entities[j]) \notin STOP_WORDS})

ProductCap == IF Len(SplitWords(fe_query)) < 5 THEN 5 ELSE 20

\* the i-th entity is no stop word, repeats no earlier value and is within
\* the PRODUCT cap
Admissible(i) ==
    /\ EntityValueOf(fe_entities[i]) \notin STOP_WORDS
    /\ \A j \in 1..i - 1 : EntityValueOf(fe_entities[j]) # EntityValueOf(fe_entities[i])
    /\ fe_entities[i].entity_type = "PRODUCTO" => ProductsUpTo(i) <= ProductCap

\* C24: every entity of match score >= 0.5 (every exact match of the
\* extractor in particular) that is no stop word, no duplicate value and
\* within the PRODUCT cap is kept by _filter_noisy_entities.
C24_ScoredSpansKept ==
    fe_pc = "done" =>
        \A i \in 1..Len(fe_entities) :
            (MatchScore(fe_entities[i]) >= 50 /\ Admissible(i)) =>
                \E k \in 1..Len(fe_filtered) :
                    fe_filtered[k].entity_value = fe_entities[i].entity_value

\* the same for the entities that carry a score: only these are ever kept
C24_ScoredDictsKept ==
    fe_pc = "done" =>
        /\ \A i \in 1..Len(fe_entities) :
              ("score" \in DOMAIN fe_entities[i] /\ fe_entities[i].score >= 50
                 /\ Admissible(i)) =>
                  \E k \in 1..Len(fe_filtered) :
                      fe_filtered[k].entity_value = fe_entities[i].entity_value
        /\ \A k \in 1..Len(fe_filtered) : "score" \in DOMAIN fe_filtered[k]

\* the PRODUCT cap applied: six scored products in, five out
C24_CapReached ==
    fe_pc = "done" /\ Len(fe_entities) = 6 /\ Len(fe_filtered) = 5

(***************************************************************************)
(* SpecConcurrent: two classify calls running concurrently on one shared   *)
(* VeterinaryNERClassifier.  The vocabularies are attributes of the        *)
(* classifier; matches, query_lower and final_matches are locals of each   *)
(* _find_all_entities call.  A set that is not modified is iterated in the *)
(* same order by every call, so the order is part of the shared state.     *)
(***************************************************************************)
Workers == {"w1", "w2"}

\* the iteration orders of the vocabularies of a lexicon
OrderingsOf(lex) ==
    { [LABORATORIO |-> ol, DROGA |-> od, ACCION |-> oa, CATEGORIA |-> oc,
       CONCEPTO |-> ok, ESPECIE |-> oe, PRODUCTO |-> op] :
        ol \in Orders(lex.LABORATORIO), od \in Orders(lex.DROGA),
        oa \in Orders(lex.ACCION), oc \in Orders(lex.CATEGORIA),
        ok \in Orders(lex.CONCEPTO), oe \in Orders(lex.ESPECIE),
        op \in Orders(lex.PRODUCTO) }

\* the vocabularies with an iteration order for each
OrderedLexicons ==
    UNION { OrderingsOf(lex) :
            lex \in {l \in Lexicons : l.CATEGORIA # CATEGORIAS_TOKENIZED} }

ConcurrentQueries ==
    { <<"g","a","t","o","s">>, <<"p","o","w","e","r"," ","g","o","l","d">>,
      <<"p","o","w","e","r","s">> }

\* the values of the vocabularies, as sets
VocabularySets(olex) ==
    [t \in DOMAIN olex |-> {olex[t][i] : i \in 1..Len(olex[t])}]

\* matches shared by the calls (an attribute of the classifier) instead of local
LocalMatches_Shared(all_matches, w) == all_matches["w1"]

\* matches = []: the list is a local of the call
LocalMatches(all_matches, w) == all_matches[w]

\* ESTRATEGIA 1 of one call
ExactStage(ms, q, olex) ==
    LET m1 == SearchExact(ms, q, olex.LABORATORIO, "LABORATORIO")
        m2 == SearchExact(m1, q, olex.DROGA, "DROGA")
        m3 == SearchExact(m2, q, olex.ACCION, "ACCION")
        m4 == SearchExact(m3, q, olex.CATEGORIA, "CATEGORIA")
        m5 == SearchExact(m4, q, olex.CONCEPTO, "CONCEPTO")
    IN  SearchExact(m5, q, olex.ESPECIE, "ESPECIE")

\* ESTRATEGIA 3 of one call, the products in the given order
RECURSIVE ProductStage(_, _, _, _)
ProductStage(ms, q, words, order) ==
    IF order = <<>> THEN ms
    ELSE ProductStage(ProductStep(ms, q, words, Head(order)), q, words, Tail(order))

\* _find_all_entities(query_clean, query_norm) run alone
FindAllEntities(query, olex) ==
    LET q == StrLower(query)
        m1 == ExactStage(<<>>, q, olex)
        m2 == FuzzyWords(m1, q, VocabularySets(olex), SplitWords(query))
        m3 == ProductStage(m2, q, SplitWords(query), olex.PRODUCTO)
    IN  Dedup(SortSpans(m3))

InitConcurrent ==
    /\ c_lexicon \in OrderedLexicons
    /\ c_query \in [Workers -> ConcurrentQueries]
    /\ c_pc = [w \in Workers |-> "exact"]
    /\ c_todo = [w \in Workers |-> <<>>]
    /\ c_matches = [w \in Workers |-> <<>>]
    /\ c_result = [w \in Workers |-> <<>>]

\* ESTRATEGIA 1 of the call of worker w
C_Exact(w) ==
    /\ c_pc[w] = "exact"
    /\ c_matches' = [c_matches EXCEPT ![w] =
                        ExactStage(LocalMatches(c_matches, w), StrLower(c_query[w]), c_lexicon)]
    /\ c_pc' = [c_pc EXCEPT ![w] = "fuzzy"]
    /\ UNCHANGED <<c_lexicon, c_query, c_todo, c_result>>
    /\ UNCHANGED <<hm_vars, s_vars, n_vars, wf_vars, fe_vars, we_vars>>

\* ESTRATEGIA 2 of the call of worker w
C_Fuzzy(w) ==
    /\ c_pc[w] = "fuzzy"
    /\ c_matches' = [c_matches EXCEPT ![w] =
                        FuzzyWords(LocalMatches(c_matches, w), StrLower(c_query[w]),
                                   VocabularySets(c_lexicon), SplitWords(c_query[w]))]
    /\ c_todo' = [c_todo EXCEPT ![w] = c_lexicon.PRODUCTO]
    /\ c_pc' = [c_pc EXCEPT ![w] = "products"]
    /\ UNCHANGED <<c_lexicon, c_query, c_result>>
    /\ UNCHANGED <<hm_vars, s_vars, n_vars, wf_vars, fe_vars, we_vars>>

\* ESTRATEGIA 3 of the call of worker w: one iteration of the loop
C_Product(w) ==
    /\ c_pc[w] = "products"
    /\ c_todo[w] # <<>>
    /\ c_matches' = [c_matches EXCEPT ![w] =
                        ProductStep(LocalMatches(c_matches, w), StrLower(c_query[w]),
                                    SplitWords(c_query[w]), Head(c_todo[w]))]
    /\ c_todo' = [c_todo EXCEPT ![w] = Tail(c_todo[w])]
    /\ UNCHANGED <<c_lexicon, c_pc, c_query, c_result>>
    /\ UNCHANGED <<hm_vars, s_vars, n_vars, wf_vars, fe_vars, we_vars>>

\* RANKING, DEDUPLICACION and return of the call of worker w
C_Rank(w) ==
    /\ c_pc[w] = "products"
    /\ c_todo[w] = <<>>
    /\ c_matches' = [c_matches EXCEPT ![w] = SortSpans(LocalMatches(c_matches, w))]
    /\ c_result' = [c_result EXCEPT ![w] = Dedup(SortSpans(LocalMatches(c_matches, w)))]
    /\ c_pc' = [c_pc EXCEPT ![w] = "done"]
    /\ UNCHANGED <<c_lexicon, c_query, c_todo>>
    /\ UNCHANGED <<hm_vars, s_vars, n_vars, wf_vars, fe_vars, we_vars>>

InitConcurrentSpec ==
    InitConcurrent /\ IdleHM /\ IdleSearch /\ IdleNER /\ IdleWeightFit /\ IdleFilterEntities
        /\ IdleWeightExtract

NextConcurrent ==
    \/ \E w \in Workers : C_Exact(w)
    \/ \E w \in Workers : C_Fuzzy(w)
    \/ \E w \in Workers : C_Product(w)
    \/ \E w \in Workers : C_Rank(w)

SpecConcurrent == InitConcurrentSpec /\ [][NextConcurrent]_vars

(***************************************************************************)
(* Properties of concurrent classify calls                                 *)
(***************************************************************************)
\* under every interleaving of two classify calls on one classifier, a call
\* that has returned has the result the same query gets when it runs alone
SameResultAsAlone ==
    \A w \in Workers :
        c_pc[w] = "done" => c_result[w] = FindAllEntities(c_query[w], c_lexicon)

\* C25: queries are independent.  No step of a classify call modifies the
\* vocabularies, the only state the classifier keeps across calls, and
\* under every interleaving of concurrent calls on one classifier each
\* query gets the result it gets when it runs alone.
C25_QueriesIndependent ==
    /\ [][c_lexicon' = c_lexicon]_vars
    /\ []SameResultAsAlone

\* two calls with different queries overlapped in time, and both returned
\* spans
C25_Witness ==
    /\ c_pc["w1"] = "done" /\ c_pc["w2"] \in {"fuzzy", "products"}
    /\ c_query["w1"] # c_query["w2"]
    /\ c_result["w1"] # <<>> /\ c_matches["w2"] # <<>>
    /\ c_matches["w2"] # c_matches["w1"]

(***************************************************************************)
(* Properties of the exact matching of _find_all_entities                  *)
(***************************************************************************)
\* the spans of a list, as a set
SpanSet(ms) == {ms[i] : i \in 1..Len(ms)}

\* C26: for a fixed query and lexicon, exact matching produces the same
\* set of spans for every order in which the values of a vocabulary are
\* visited, also when one value is a word of another value that occurs in
\* the query.
C26_ExactOrderIndependent ==
    n_pc = "fuzzy" =>
        \A olex \in OrderingsOf(lexicon) :
            SpanSet(ExactStage(<<>>, StrLower(query_clean), olex)) = SpanSet(matches)

\* C27: diversification does not shrink the result: when it applies (no
\* promotions were requested), the list it returns has min(K, n)
\* candidates, n being the number of candidates that survived the
\* threshold and K the effective top-K.
C27_DiversificationKeepsSize ==
    (s_pc = "rank" /\ ~PromotionsRequested) =>
        Len(filtered) = (IF EffectiveTopK < Len(Survivors)
                         THEN EffectiveTopK ELSE Len(Survivors))

(***************************************************************************)
(* WeightExtractor (rag_domain/weight_extractor.py).                       *)
(* A title is a sequence of tokens separated by blanks: a number, alone    *)
(* or followed by its unit (kg), or a word.  The regular expressions of    *)
(* the extractor are matched on the tokens: \d+ is a number, (?:kg|kilos?) *)
(* its unit, and re.search returns the leftmost match.                     *)
(***************************************************************************)
Num(n) == [k |-> "num", v |-> n, unit |-> FALSE]      \* "20"
Kg(n) == [k |-> "num", v |-> n, unit |-> TRUE]        \* "20kg"
Word(w) == [k |-> "word", w |-> w]

IsNumber(t) == t.k = "num"
IsWeight(t) == t.k = "num" /\ t.unit
IsWord(t, w) == t.k = "word" /\ t.w = w

NoWeight == <<>>

\* WeightRange(min_weight, max_weight, confidence, method); confidence in hundredths
WeightRange(min_weight, max_weight, confidence, method) ==
    [min_weight |-> min_weight, max_weight |-> max_weight,
     confidence |-> confidence, method |-> method]

\* the positions where number, separator, number-with-unit match
RangeMatches(title, sep) ==
    {i \in 1..Len(title) - 2 :
        IsNumber(title[i]) /\ IsWord(title[i + 1], sep) /\ IsWeight(title[i + 2])}

\* the least element of a non-empty set of positions
Leftmost(S) == CHOOSE i \in S : \A j \in S : i <= j

\* _extract_explicit_range(title)
ExtractExplicitRange(title) ==
    LET m1 == RangeMatches(title, "-")
        m2 == RangeMatches(title, "a")
        range(i, method) ==
            LET num1 == title[i].v
                num2 == title[i + 2].v
            IN  WeightRange(IF num1 <= num2 THEN num1 ELSE num2,
                            IF num1 >= num2 THEN num1 ELSE num2, 100, method)
    IN  IF m1 # {} THEN range(Leftmost(m1), "explicit_range")
        ELSE IF m2 # {} THEN range(Leftmost(m2), "explicit_range_a")
        ELSE NoWeight

\* the positions where the keyword is followed by a number with its unit
KeywordMatches(title, kw) ==
    {i \in 1..Len(title) - 1 : IsWord(title[i], kw) /\ IsWeight(title[i + 1])}

\* _extract_with_keywords(title), for the keywords 'hasta' and 'desde'
ExtractWithKeywords(title) ==
    LET mx == KeywordMatches(title, "hasta")
        mn == KeywordMatches(title, "desde")
    IN  IF mx # {} \/ mn # {}
        THEN WeightRange(IF mn # {} THEN title[Leftmost(mn) + 1].v ELSE 0,
                         IF mx # {} THEN title[Leftmost(mx) + 1].v ELSE 999,
                         100, "keyword")
        ELSE NoWeight

\* _extract_single_weight(title): the number, or 0 for None
ExtractSingleWeight(title) ==
    LET m == {i \in 1..Len(title) : IsWeight(title[i])} IN
    IF m # {} THEN title[Leftmost(m)].v ELSE 0

\* self.standard_ranges
STANDARD_RANGES == << <<0, 4>>, <<4, 10>>, <<10, 20>>, <<20, 40>>, <<40, 60>>, <<60, 100>> >>

\* _infer_standard_range(weight, title), for whole weights
InferStandardRange(weight) ==
    LET upper == {r \in 1..Len(STANDARD_RANGES) : weight = STANDARD_RANGES[r][2]}
        within == {r \in 1..Len(STANDARD_RANGES) :
                      STANDARD_RANGES[r][1] < weight /\ weight <= STANDARD_RANGES[r][2]}
    IN  IF upper # {}
        THEN WeightRange(STANDARD_RANGES[Leftmost(upper)][1],
                         STANDARD_RANGES[Leftmost(upper)][2], 85, "standard_range_upper")
        ELSE IF within # {}
        THEN WeightRange(STANDARD_RANGES[Leftmost(within)][1],
                         STANDARD_RANGES[Leftmost(within)][2], 75, "standard_range_contains")
        ELSE IF weight > 100 THEN WeightRange(60, weight, 60, "standard_range_fallback")
        ELSE IF weight < 4 THEN WeightRange(0, weight, 60, "standard_range_fallback")
        ELSE NoWeight

\* extract(title) of a WeightExtractor built without a database (self.db is
\* None: the family strategy is skipped)
Extract(title) ==
    LET explicit == ExtractExplicitRange(title)
        keyword == ExtractWithKeywords(title)
        single_weight == ExtractSingleWeight(title)
    IN  IF explicit # NoWeight THEN explicit
        ELSE IF keyword # NoWeight THEN keyword
        ELSE IF single_weight # 0 THEN InferStandardRange(single_weight)
        ELSE NoWeight

(***************************************************************************)
(* SpecWeightExtract: one WeightExtractor().extract(title) call.           *)
(***************************************************************************)
MaxTitleTokens == 4   \* tokens of a title

TitleTokens ==
    { Num(20), Kg(2), Kg(10), Kg(20), Kg(150),
      Word("-"), Word("a"), Word("hasta"), Word("desde") }

Titles == UNION { [1..n -> TitleTokens] : n \in 0..MaxTitleTokens }

InitWeightExtract ==
    /\ we_pc = "call"
    /\ we_title \in Titles
    /\ we_result = NoWeight

\* result = extractor.extract(title)
WE_Extract ==
    /\ we_pc = "call"
    /\ we_result' = Extract(we_title)
    /\ we_pc' = "done"
    /\ UNCHANGED we_title
    /\ UNCHANGED <<hm_vars, s_vars, n_vars, wf_vars, fe_vars, c_vars>>

InitWeightExtractSpec ==
    InitWeightExtract /\ IdleHM /\ IdleSearch /\ IdleNER /\ IdleWeightFit
        /\ IdleFilterEntities /\ IdleConcurrent

NextWeightExtract == WE_Extract

SpecWeightExtract == InitWeightExtractSpec /\ [][NextWeightExtract]_vars

(***************************************************************************)
(* Properties of WeightExtractor.extract                                   *)
(***************************************************************************)
\* C28: every WeightRange returned by extract has min_weight <= max_weight,
\* whichever strategy produced it (explicit range, keywords, standard
\* bracket).
C28_RangeOrdered ==
    (we_pc = "done" /\ we_result # NoWeight) =>
        we_result.min_weight <= we_result.max_weight

\* the same for the explicit and the standard strategies alone
C28_OrderedUnlessKeyword ==
    (we_pc = "done" /\ we_result # NoWeight /\ we_result.method # "keyword") =>
        we_result.min_weight <= we_result.max_weight

\* an explicit range written in reverse was returned in order
C28_ReversedCorrected ==
    /\ we_pc = "done" /\ we_title = <<Num(20), Word("-"), Kg(10)>>
    /\ we_result # NoWeight /\ we_result.min_weight = 10 /\ we_result.max_weight = 20

(***************************************************************************)
(* Properties of the scoring of a one-sided weight filter                  *)
(***************************************************************************)
\* the filter set has exactly one weight bound: the other is null or absent
OneSidedWeight ==
    \/ Get(filters, "weight_min").t = "num" /\ Get(filters, "weight_max") = JNull
    \/ Get(filters, "weight_max").t = "num" /\ Get(filters, "weight_min") = JNull

\* the bounds the scoring is to use: 0 and 999 for the missing one
LowerBoundOrDefault ==
    IF Get(filters, "weight_min").t = "num" THEN filters["weight_min"].n ELSE 0

UpperBoundOrDefault ==
    IF Get(filters, "weight_max").t = "num" THEN filters["weight_max"].n ELSE 999

\* every hit with a parsable weight_range got the fit of its range against
\* the bounds, the missing one replaced by its default
ScoredWithDefaults ==
    /\ Len(scored) = Len(raw_results)
    /\ \A i \in 1..Len(raw_results) :
          LET r == ParseWeightRange(Get(raw_results[i].metadata, "weight_range")) IN
          r # NoRange =>
              scored[i].weight_fit = ScoreWeightFit(r, LowerBoundOrDefault, UpperBoundOrDefault)

\* C29: with a one-sided weight filter (one bound set, the other null or
\* absent) the scoring never fails, and every hit with a parsable
\* weight_range is scored against the bound and the default 0 / 999.
C29_OneSidedWeightScored ==
    OneSidedWeight =>
        /\ s_pc # "raised"
        /\ s_pc \in {"threshold", "diversify", "rank", "done"} => ScoredWithDefaults

\* the same when the missing bound is absent from the filter set
C29_AbsentBoundScored ==
    (OneSidedWeight /\ ~({"weight_min", "weight_max"} \subseteq DOMAIN filters)) =>
        /\ s_pc # "raised"
        /\ s_pc \in {"threshold", "diversify", "rank", "done"} => ScoredWithDefaults

\* a filter with only weight_max was scored with a hit whose range counted
C29_AbsentBoundReached ==
    /\ s_pc = "threshold" /\ OneSidedWeight /\ "weight_min" \notin DOMAIN filters
    /\ \E i \in 1..Len(scored) : scored[i].weight_fit > 0

\* a null upper bound made the scoring fail
C29_NullUpperBoundRaised ==
    /\ s_pc = "raised" /\ Get(filters, "weight_min").t = "num"
    /\ "weight_max" \in DOMAIN filters /\ filters["weight_max"] = JNull

(***************************************************************************)
(* Properties of the order of the stages of handle_message                 *)
(***************************************************************************)
\* the positions of a stage in the trace of the call
StagePositions(stage) == {i \in 1..Len(hm_trace) : hm_trace[i] = stage}

\* classify came first, the oracle call of the optimizer after it, and the
\* retrieval after the optimizer; no stage ran twice
StagesInOrder ==
    /\ \A i \in StagePositions("classify") : i = 1
    /\ \A i \in StagePositions("oracle") : i = 2
    /\ \A i \in StagePositions("search") : i = 4 /\ hm_trace[2] = "oracle"
    /\ hm_pc \notin {"idle", "classify"} => StagePositions("classify") = {1}
    /\ hm_pc \notin {"idle", "classify", "optimize"} => StagePositions("oracle") = {2}

Classified == hm_pc \notin {"idle", "classify"}

\* SMALLTALK: no entities, no retrieval, no attachments
SmalltalkSkipsRetrieval ==
    (Classified /\ classification.intent = "SMALLTALK") =>
        /\ classification.all_entities = <<>>
        /\ StagePositions("search") = {}
        /\ search_arg = NotCalled
        /\ final_candidates = <<>>
        /\ attachments = <<>>

\* handle_message ended: it returned, or an exception left it
CallEnded == hm_pc \in {"done", "raised", "search_raised", "store_raised"}

C30_RetrievedOnce ==
    /\ hm_pc = "done" /\ classification.intent = "SEARCH"
    /\ Len(hm_trace) = 4 /\ hm_trace[4] = "search"
    /\ search_arg = optimized_data /\ attachments # <<>>

\* a SEARCH call left by the exception of optimize, before any retrieval
C30_RaisedBeforeRetrieval ==
    /\ hm_pc = "raised" /\ classification.intent = "SEARCH"
    /\ search_arg = NotCalled

====
